---- MODULE Spec2Model ----
(***************************************************************************)
(* Demand-driven pricing and refresh engine of the DEX market viewer:      *)
(* the interest tracker (PoolController), the lifecycle reclaimer          *)
(* (GCManager.cleanupPools), the weight-bounded batching and the           *)
(* processing of multicall results.                                        *)
(*                                                                         *)
(* Time is Date.now() in milliseconds; it advances in steps of TickMs.     *)
(* The write-only field lastRequestTime of an AlivePool is not modelled:   *)
(* no operation reads it.                                                  *)
(***************************************************************************)
EXTENDS Integers, Sequences, FiniteSets, TLC

\* ------------------------------------------------------------ bounds
\* Granularity of the clock.
TickMs == 5000
\* Clock horizon of the interest-tracker specification (Spec).
InterestHorizonMs == 5000
\* Clock horizon of the reclaimer specification (SpecGC).
GCHorizonMs == 65000
RefreshHorizonMs == 10000
\* Cap of a pool's reference count.
MaxRef == 3
\* Longest history: registrations plus releases, over all pools.
MaxOps == 3
\* Longest token list handed to getMarketOverview.
MaxTokens == 3
\* Longest list of due pools handed to createBatches, the scenario aside.
MaxDue == 4
MaxAssign == 4
\* Longest pricing route of a token in the registry.
MaxRouteHops == 2
\* Recursive calls of computeSpotPrice followed before the call counts as
\* still recursing.
MaxDepth == 3
\* Clock horizon of the consistent-read specification (SpecRead).
ReadHorizonMs == 45000
\* Highest tick id of a cache entry a read meets.
MaxTick == 2
MaxCyclePools == 2

\* ------------------------------------------------- program constants
HIGH_TIER_INTERVAL_MS == 5000
POOL_GRACE_PERIOD_MS == 20000
POOL_CLEANUP_INTERVAL_MS == 30000
MAX_CALL_WEIGHT_PER_BATCH == 50
EXECUTION_LOOP_MS == 1000
NORMAL_TIER_INTERVAL_MS == 10000
LOW_TIER_INTERVAL_MS == 30000
CACHE_TTL_MS == 30000
\* The delay of scheduleRetry.
RETRY_DELAY_MS == 1000
STATE_CLEANUP_INTERVAL_MS == 10000

\* ------------------------------------------------------------- domain
Chains == {1, 137}
\* Pool addresses; the order of the integers stands for the string order
\* used by Array.prototype.sort.
PoolAddrs == {1, 2}
PoolKeys == Chains \X PoolAddrs

\* `${chainId}:${poolAddress}`
poolKeyOf(chainId, poolAddress) == <<chainId, poolAddress>>

Route(pool, base) == [pool |-> pool, base |-> base]

\* Tokens with their pricing routes attached by the cold path.  chainId 0
\* stands for a token object without a chainId field.
TokenUniverse ==
  { [address |-> 11, chainId |-> 137, pricingPools |-> <<Route(1, "USDC")>>],
    [address |-> 12, chainId |-> 137, pricingPools |-> <<Route(1, "USDC")>>],
    [address |-> 13, chainId |-> 137, pricingPools |-> <<Route(1, "USDC")>>],
    [address |-> 14, chainId |-> 137,
       pricingPools |-> <<Route(2, "WETH"), Route(1, "USDC")>>],
    [address |-> 15, chainId |-> 0, pricingPools |-> <<Route(1, "USDC")>>] }

\* Lists of at most n elements of S, by ascending token address.
SeqsUpTo(S, n) ==
  UNION { { s \in [1..k -> S] :
              \A i, j \in 1..k : i < j => s[i].address < s[j].address } :
          k \in 0..n }

\* The token lists a client may ask an overview of.
TokenLists == SeqsUpTo(TokenUniverse, MaxTokens)

VARIABLES
  now,                    \* Date.now()
  aliveSet,               \* PoolController.aliveSet: poolKey -> AlivePool
  aliveOrder,             \* the keys of aliveSet in the order the Map iterates
  poolsWithZeroRefCount,  \* GCManager.poolsWithZeroRefCount: poolKey -> time
  nextPoolCleanup,        \* due time of the pool-cleanup interval timer
  maxWeight,              \* MAX_CALL_WEIGHT_PER_BATCH, as configured
  scheduledPools,         \* the pools handed to createBatches
  batches,                \* the batches createBatches returned
  cache,                  \* pool state cache: poolKey -> entry
  inFlight,               \* batches given to a provider, not yet answered
  nextLoop,               \* due time of the executionLoop timer
  tickCounter,            \* last tick id generateTickId() gave out
  rpcProviders,           \* RpcConfig.providers
  roundRobinCounters,     \* RpcConfig.roundRobinCounters: chainId -> counter
  rpcLog,                 \* providers getNextRpcEndpoint chose, per chain
  dispatchLog,            \* providers distributeBatches dispatched to
  pricingRoutes,          \* poolRegistry.pricingRoutes, per chain
  poolStates,             \* sharedStateCache pool states: pool -> PoolState
  cycleLog,               \* the batches first made for a set of due pools
  marketCache,            \* MarketViewerService.cache: cacheKey -> entry
  tokenCache,             \* CacheLayer.tokenCache: chainId -> entry
  pendingLoads,           \* reads of the storage awaited, per chain
  storageReads,           \* reads of the storage begun since the last invalidation, per chain
  invalidations,          \* invalidations of the token cache made, per chain
  loadsBegun,             \* for each read awaited, the invalidations made before it began, per chain
  loadedAt,               \* the invalidations made before the cached list was read, per chain
  queue,                  \* RequestBatcher.queue
  forwarded,              \* the batches passed to controller.getQuotes
  pendingRequests,        \* DispatcherService.pendingRequests: id -> resolvers
  resolved,               \* the values each resolver was called with
  quoteCache,             \* CacheService.cache: key -> entry
  lastUpdated,            \* ControllerService.lastUpdated: address -> time
  quoteCalls,             \* the getQuotes calls awaiting pool data
  quarantine,             \* quarantine registry: token -> entry
  registryPools,          \* the pools of the pool registry in storage
  validations,            \* the validateToken calls at an await
  promotions,             \* the calls of promoteQuarantineToken made
  schedulerStarted,       \* MarketViewerService.schedulerStarted
  startsPending,          \* calls of poolScheduler.start() not yet returned
  startCalls,             \* calls of poolScheduler.start() made
  snapshotCache,          \* SnapshotService.cache: chain -> snapshot
  isUpdating,             \* SnapshotService.isUpdating: chain -> flag
  generations,            \* generateSnapshot calls awaiting the pools, per chain
  cleanupLoops,           \* GCManager.cleanupLoops: name -> interval id
  activeTimers,           \* the interval timers set and not cleared
  timersMade,             \* the interval ids given out so far
  hist,                   \* history of the calls made, per pool key
  lastCall                \* summary of the most recent call

gcVars == <<poolsWithZeroRefCount, nextPoolCleanup>>
batchVars == <<maxWeight, scheduledPools, batches>>
refreshVars == <<cache, inFlight, nextLoop, tickCounter>>
rpcVars == <<rpcProviders, roundRobinCounters, rpcLog, dispatchLog>>
priceVars == <<pricingRoutes, poolStates>>
loadVars == <<invalidations, loadsBegun, loadedAt>>

cacheLayerVars == <<tokenCache, pendingLoads, storageReads, loadVars>>
batcherVars == <<queue, forwarded>>
controllerVars == <<pendingRequests, resolved, quoteCache, lastUpdated, quoteCalls>>
quarantineVars == <<quarantine, registryPools, validations, promotions>>
schedulerVars == <<schedulerStarted, startsPending, startCalls>>
snapshotVars == <<snapshotCache, isUpdating, generations>>
loopVars == <<cleanupLoops, activeTimers, timersMade>>
backgroundVars == <<quarantineVars, schedulerVars, snapshotVars, loopVars>>
appVars == <<controllerVars, backgroundVars>>
serviceVars == <<cacheLayerVars, batcherVars, appVars>>
engineVars == <<rpcVars, priceVars, cycleLog, marketCache, serviceVars>>
vars == <<now, aliveSet, aliveOrder, gcVars, batchVars, refreshVars, engineVars, hist, lastCall>>

\* ------------------------------------------------------- RpcConfig
\* The providers initializeProviders knows, in the order it pushes them.
ProviderTable ==
  << [name |-> "Infura", key |-> "INFURA_API_KEY", endpoints |-> {1, 137}],
     [name |-> "Alchemy", key |-> "ALCHEMY_API_KEY", endpoints |-> {1, 137}],
     [name |-> "PublicPolygon", key |-> "POLYGON_RPC_URL", endpoints |-> {137}] >>

EnvKeys == {"INFURA_API_KEY", "ALCHEMY_API_KEY", "POLYGON_RPC_URL"}

\* initializeProviders: one provider per key the environment sets.
initializeProviders(env) ==
  LET providers == SelectSeq(ProviderTable, LAMBDA p : p.key \in env)
  IN [i \in 1..Len(providers) |->
        [name |-> providers[i].name, endpoints |-> providers[i].endpoints]]

\* initializeCounters
initializeCounters == (1 :> 0) @@ (137 :> 0)

\* providers.filter(p => p.endpoints[chainId])
availableProviders(providers, chainId) ==
  SelectSeq(providers, LAMBDA p : chainId \in p.endpoints)

\* getNextRpcEndpoint past its throw: the provider chosen and the counters
\* left behind.
getNextRpcEndpoint(providers, counters, chainId) ==
  LET available == availableProviders(providers, chainId)
      counter == IF chainId \in DOMAIN counters THEN counters[chainId] ELSE 0
      nextIndex == counter % Len(available)
      provider == available[nextIndex + 1]
  IN [provider |-> provider.name,
      counters |-> [c \in DOMAIN counters \cup {chainId} |->
                      IF c = chainId THEN (counter + 1) % Len(available)
                      ELSE counters[c]]]

\* The chains getNextRpcEndpoint is asked for; no provider serves chain 10.
RpcChains == Chains \cup {10}

\* RpcConfig after getInstance with every key set, the pricing engine with
\* an empty registry and an empty state cache.
EnginesIdle ==
  /\ rpcProviders = initializeProviders(EnvKeys)
  /\ roundRobinCounters = initializeCounters
  /\ rpcLog = [c \in RpcChains |-> <<>>]
  /\ dispatchLog = <<>>
  /\ pricingRoutes = [c \in Chains |-> <<>>]
  /\ poolStates = <<>>

\* The request-side services as constructed.
AppIdle ==
  /\ pendingRequests = <<>>
  /\ resolved = <<>>
  /\ quoteCache = <<>>
  /\ lastUpdated = <<>>
  /\ quoteCalls = <<>>
  /\ quarantine = <<>>
  /\ registryPools = <<>>
  /\ validations = <<>>
  /\ promotions = <<>>
  /\ snapshotCache = <<>>
  /\ isUpdating = <<>>
  /\ generations = <<>>
  /\ cleanupLoops = <<>>
  /\ activeTimers = {}
  /\ timersMade = 0

\* The pool scheduler was started by an earlier overview and runs.
SchedulerRunning ==
  /\ schedulerStarted = TRUE
  /\ startsPending = 0
  /\ startCalls = <<"started">>

Tracked(k) == k \in DOMAIN aliveSet

\* ------------------------------------------- MarketViewerService
\* Insertion of x into the sorted sequence s.
RECURSIVE InsertSorted(_, _)
InsertSorted(x, s) ==
  IF s = <<>> THEN <<x>>
  ELSE IF x <= Head(s) THEN <<x>> \o s
  ELSE <<Head(s)>> \o InsertSorted(x, Tail(s))

RECURSIVE sortAddresses(_)
sortAddresses(s) == IF s = <<>> THEN <<>> ELSE InsertSorted(Head(s), sortAddresses(Tail(s)))

\* (token.pricingPools || []).map(route => route.pool).sort().join('|'),
\* prefixed by `${token.chainId || 1}:`
poolSetKey(token) ==
  << IF token.chainId = 0 THEN 1 ELSE token.chainId,
     sortAddresses([i \in 1..Len(token.pricingPools) |-> token.pricingPools[i].pool]) >>

RECURSIVE dedupFrom(_, _)
dedupFrom(tokens, seenKeys) ==
  IF tokens = <<>> THEN <<>>
  ELSE IF poolSetKey(Head(tokens)) \in seenKeys
       THEN dedupFrom(Tail(tokens), seenKeys)
       ELSE <<Head(tokens)>>
            \o dedupFrom(Tail(tokens), seenKeys \cup {poolSetKey(Head(tokens))})

\* No deduplication: every token reaches the tracker.
MutNoDedup(tokens) == tokens

deduplicateTokensByPool(tokens) == dedupFrom(tokens, {})

\* ------------------------------------------------ PoolController
NewAlivePool(t) ==
  [ tier |-> "high",
    nextRefresh |-> t + HIGH_TIER_INTERVAL_MS,
    lastBlockSeen |-> 0,
    lastPrice |-> 0,
    refCount |-> 1 ]

\* A pool already tracked is entered anew.
MutTouchReset(alive, k, t) == (k :> NewAlivePool(t)) @@ alive

\* Body of the inner loop of handleTokenInterest, for one route.
touchPool(alive, k, t) ==
  IF k \in DOMAIN alive
  THEN [alive EXCEPT ![k].refCount = @ + 1]
  ELSE (k :> NewAlivePool(t)) @@ alive

\* Only the first route of a token is registered.
MutFirstRouteOnly(alive, routes, chainId, t) ==
  IF routes = <<>> THEN alive
  ELSE touchPool(alive, poolKeyOf(chainId, Head(routes).pool), t)

RECURSIVE handleRoutes(_, _, _, _)
handleRoutes(alive, routes, chainId, t) ==
  IF routes = <<>> THEN alive
  ELSE handleRoutes(touchPool(alive, poolKeyOf(chainId, Head(routes).pool), t),
                    Tail(routes), chainId, t)

RECURSIVE handleTokenInterest(_, _, _, _)
handleTokenInterest(alive, tokens, chainId, t) ==
  IF tokens = <<>> THEN alive
  ELSE handleTokenInterest(
         handleRoutes(alive, Head(tokens).pricingPools, chainId, t),
         Tail(tokens), chainId, t)

\* The keys the routes of the tokens name, in the order the loops of
\* handleTokenInterest reach them.
RECURSIVE routeKeys(_, _)
routeKeys(tokens, chainId) ==
  IF tokens = <<>> THEN <<>>
  ELSE [i \in 1..Len(Head(tokens).pricingPools) |->
          poolKeyOf(chainId, Head(tokens).pricingPools[i].pool)]
       \o routeKeys(Tail(tokens), chainId)

\* aliveSet.set(key, ...) for each key in turn: a Map iterates in the order
\* of first insertion, so a key already present keeps its place and a new
\* key goes last.
RECURSIVE insertionOrder(_, _)
insertionOrder(order, keys) ==
  IF keys = <<>> THEN order
  ELSE insertionOrder(IF \E i \in 1..Len(order) : order[i] = Head(keys)
                      THEN order ELSE Append(order, Head(keys)),
                      Tail(keys))

incrementRefCount(alive, k) ==
  IF k \in DOMAIN alive THEN [alive EXCEPT ![k].refCount = @ + 1] ELSE alive

Max(a, b) == IF a >= b THEN a ELSE b

\* The count is lowered without the floor at 0.
MutNoFloor(alive, k) ==
  IF k \in DOMAIN alive THEN [alive EXCEPT ![k].refCount = @ - 1] ELSE alive

decrementRefCount(alive, k) ==
  IF k \in DOMAIN alive
  THEN [alive EXCEPT ![k].refCount = Max(0, @ - 1)]
  ELSE alive

\* ------------------------------------------------------- history
\* Number of times the routes of `tokens` name pool address p.
RECURSIVE routeHits(_, _)
routeHits(routes, p) ==
  IF routes = <<>> THEN 0
  ELSE (IF Head(routes).pool = p THEN 1 ELSE 0) + routeHits(Tail(routes), p)

RECURSIVE tokenHits(_, _)
tokenHits(tokens, p) ==
  IF tokens = <<>> THEN 0
  ELSE routeHits(Head(tokens).pricingPools, p) + tokenHits(Tail(tokens), p)

RECURSIVE totalHits(_)
totalHits(tokens) ==
  IF tokens = <<>> THEN 0
  ELSE Len(Head(tokens).pricingPools) + totalHits(Tail(tokens))

\* zeroAt: time of the most recent transition of the PoolRef to ref-count 0
\* (-1: none).
NoHist == [regs |-> 0, rels |-> 0, exact |-> TRUE, zeroAt |-> -1]

NoCall == [op |-> "none"]

\* The pool address p when every token of the list has the one route <<p>>,
\* 0 otherwise.
singlePoolOf(tokens) ==
  LET ps == UNION { { tokens[i].pricingPools[j].pool :
                        j \in 1..Len(tokens[i].pricingPools) } :
                      i \in 1..Len(tokens) }
  IN IF /\ tokens # <<>>
        /\ \A i \in 1..Len(tokens) : Len(tokens[i].pricingPools) = 1
        /\ Cardinality(ps) = 1
     THEN CHOOSE p \in ps : TRUE
     ELSE 0

\* Summary of a getMarketOverview call that turned aliveSet from a into b.
OverviewCall(chainId, tokens, a, b) ==
  [ op |-> "overview",
    chainId |-> chainId,
    asked |-> Len(tokens),
    single |-> singlePoolOf(tokens),
    uniform |-> \A i, j \in 1..Len(tokens) : tokens[i].chainId = tokens[j].chainId,
    created |-> DOMAIN b \ DOMAIN a,
    bumped |-> { k \in DOMAIN a : b[k].refCount > a[k].refCount } ]

RECURSIVE SumOps(_)
SumOps(keys) ==
  IF keys = {} THEN 0
  ELSE LET k == CHOOSE x \in keys : TRUE
       IN hist[k].regs + hist[k].rels + SumOps(keys \ {k})

OpsDone == SumOps(PoolKeys)

\* ------------------------------------------------------- actions
\* getMarketOverview(chainId, tokens): the interest path of the service.
GetMarketOverview(chainId, tokens) ==
  LET dedup == deduplicateTokensByPool(tokens)
      alive2 == handleTokenInterest(aliveSet, dedup, chainId, now)
  IN /\ \A k \in DOMAIN alive2 : alive2[k].refCount <= MaxRef
     /\ aliveSet' = alive2
     /\ aliveOrder' = insertionOrder(aliveOrder, routeKeys(dedup, chainId))
     /\ UNCHANGED <<engineVars, now, gcVars, batchVars, refreshVars>>

\* History of GetMarketOverview: one registration per route occurrence that
\* reaches handleTokenInterest.
HistOverview(chainId, tokens) ==
  LET dedup == deduplicateTokensByPool(tokens)
  IN /\ OpsDone + totalHits(dedup) <= MaxOps
     /\ hist' = [k \in PoolKeys |->
                   IF k[1] = chainId
                   THEN [hist[k] EXCEPT !.regs = @ + tokenHits(dedup, k[2])]
                   ELSE hist[k]]
     /\ lastCall' = OverviewCall(chainId, tokens, aliveSet,
                                 handleTokenInterest(aliveSet, dedup, chainId, now))

IncrementRefCount(k) ==
  /\ Tracked(k) => aliveSet[k].refCount < MaxRef
  /\ aliveSet' = incrementRefCount(aliveSet, k)
  /\ UNCHANGED <<engineVars, aliveOrder, now, gcVars, batchVars, refreshVars>>

HistIncrement(k) ==
  /\ OpsDone < MaxOps
  /\ hist' = [hist EXCEPT ![k].regs = @ + 1,
                          ![k].exact = @ /\ Tracked(k)]
  /\ lastCall' = [op |-> "increment", key |-> k]

DecrementRefCount(k) ==
  /\ aliveSet' = decrementRefCount(aliveSet, k)
  /\ UNCHANGED <<engineVars, aliveOrder, now, gcVars, batchVars, refreshVars>>

HistDecrement(k) ==
  /\ OpsDone < MaxOps
  /\ hist' = [hist EXCEPT ![k].rels = @ + 1,
                          ![k].exact = @ /\ Tracked(k) /\ aliveSet[k].refCount > 0]
  /\ lastCall' = [op |-> "decrement", key |-> k]

TickInterest ==
  /\ now + TickMs <= InterestHorizonMs
  /\ now' = now + TickMs
  /\ lastCall' = NoCall
  /\ UNCHANGED <<engineVars, aliveSet, aliveOrder, gcVars, batchVars, refreshVars, hist>>

\* The services as constructed, before any request.
InitCore ==
  /\ now = 0
  /\ aliveSet = <<>>
  /\ aliveOrder = <<>>
  /\ cycleLog = <<>>
  /\ marketCache = <<>>
  /\ tokenCache = <<>>
  /\ pendingLoads = [c \in Chains |-> 0]
  /\ storageReads = [c \in Chains |-> 0]
  /\ invalidations = [c \in Chains |-> 0]
  /\ loadsBegun = [c \in Chains |-> <<>>]
  /\ loadedAt = [c \in Chains |-> 0]
  /\ queue = <<>>
  /\ forwarded = <<>>
  /\ AppIdle
  /\ poolsWithZeroRefCount = <<>>
  /\ nextPoolCleanup = POOL_CLEANUP_INTERVAL_MS
  /\ batches = <<>>
  /\ cache = <<>>
  /\ inFlight = {}
  /\ nextLoop = EXECUTION_LOOP_MS
  /\ tickCounter = 0
  /\ hist = [k \in PoolKeys |-> NoHist]
  /\ lastCall = NoCall

\* The services with the pool scheduler started.
InitServices == InitCore /\ SchedulerRunning

Init ==
  /\ InitServices
  /\ EnginesIdle
  /\ maxWeight = MAX_CALL_WEIGHT_PER_BATCH
  /\ scheduledPools = <<>>

Overview ==
  \E c \in Chains, ts \in TokenLists :
    HistOverview(c, ts) /\ GetMarketOverview(c, ts)

StayAlive == \E k \in PoolKeys : HistIncrement(k) /\ IncrementRefCount(k)

Release == \E k \in PoolKeys : HistDecrement(k) /\ DecrementRefCount(k)

Next == Overview \/ StayAlive \/ Release \/ TickInterest

Spec == Init /\ [][Next]_vars


\* ------------------------------------------------------ GCManager
\* Step 1 without its else branch: a revived pool keeps its timestamp.
MutNoRevival(alive, zeroMap, t) ==
  LET atZero == { k \in DOMAIN alive : alive[k].refCount = 0 }
  IN [k \in DOMAIN zeroMap \cup atZero |->
        IF k \in DOMAIN zeroMap THEN zeroMap[k] ELSE t]

\* Step 1 of cleanupPools: pools seen at refCount 0 enter the grace tracking
\* at time t unless already there; pools seen at refCount > 0 leave it.
trackZeroRefCount(alive, zeroMap, t) ==
  LET atZero == { k \in DOMAIN alive : alive[k].refCount = 0 }
      revived == { k \in DOMAIN alive : alive[k].refCount > 0 }
  IN [k \in (DOMAIN zeroMap \cup atZero) \ revived |->
        IF k \in DOMAIN zeroMap THEN zeroMap[k] ELSE t]

\* Step 2 of cleanupPools: the keys whose grace period has expired.
poolKeysToRemove(zeroMap, t) ==
  { k \in DOMAIN zeroMap : t - zeroMap[k] >= POOL_GRACE_PERIOD_MS }

\* aliveSet.delete(key) for every key of `keys`: the other keys keep their
\* order.
RECURSIVE deleteKeys(_, _)
deleteKeys(order, keys) ==
  IF order = <<>> THEN <<>>
  ELSE (IF Head(order) \in keys THEN <<>> ELSE <<Head(order)>>)
       \o deleteKeys(Tail(order), keys)

\* PoolController.removePool for every key of `keys`.
removePools(alive, keys) == [k \in DOMAIN alive \ keys |-> alive[k]]

\* One run of cleanupPools, fired by its interval timer.
CleanupPools ==
  LET tracked == trackZeroRefCount(aliveSet, poolsWithZeroRefCount, now)
      expired == poolKeysToRemove(tracked, now)
  IN /\ now >= nextPoolCleanup
     /\ aliveSet' = removePools(aliveSet, expired)
     /\ aliveOrder' = deleteKeys(aliveOrder, expired)
     /\ poolsWithZeroRefCount' = [k \in DOMAIN tracked \ expired |-> tracked[k]]
     /\ nextPoolCleanup' = nextPoolCleanup + POOL_CLEANUP_INTERVAL_MS
     /\ lastCall' = [op |-> "cleanup", removed |-> expired]
     /\ UNCHANGED <<engineVars, now, batchVars, refreshVars, hist>>

TokenAt(address) == CHOOSE token \in TokenUniverse : token.address = address

\* The overviews asked for while the cleanup loop runs.
GCTokenLists == { <<TokenAt(11)>> }

\* A registration creating the PoolRef of k starts its history anew.
RegisterGC ==
  \E ts \in GCTokenLists :
    /\ GetMarketOverview(137, ts)
    /\ hist' = [k \in PoolKeys |->
                  IF Tracked(k) THEN hist[k] ELSE NoHist]
    /\ lastCall' = [op |-> "overview"]

StayAliveGC ==
  \E k \in DOMAIN aliveSet :
    /\ IncrementRefCount(k)
    /\ lastCall' = [op |-> "increment", key |-> k]
    /\ UNCHANGED hist

ReleaseGC ==
  \E k \in DOMAIN aliveSet :
    /\ DecrementRefCount(k)
    /\ hist' = IF aliveSet[k].refCount = 1
               THEN [hist EXCEPT ![k].zeroAt = now]
               ELSE hist
    /\ lastCall' = [op |-> "decrement", key |-> k]

\* Time passes; the cleanup timer, once due, fires before time moves on.
TickGC ==
  /\ now < nextPoolCleanup
  /\ now + TickMs <= GCHorizonMs
  /\ now' = now + TickMs
  /\ lastCall' = NoCall
  /\ UNCHANGED <<engineVars, aliveSet, aliveOrder, gcVars, batchVars, refreshVars, hist>>

NextGC == RegisterGC \/ StayAliveGC \/ ReleaseGC \/ CleanupPools \/ TickGC

SpecGC == Init /\ [][NextGC]_vars

\* ------------------------------------------------- PoolScheduler
poolWeight(pool) == IF pool.dexType = "v2" THEN 1 ELSE 2

\* The loop of createBatches over the pools still to place, from the state
\* st = (batches, currentBatch, currentWeight) it has reached.
RECURSIVE batchLoop(_, _, _)
batchLoop(pools, st, MAX_WEIGHT) ==
  IF pools = <<>> THEN st
  ELSE LET pool == Head(pools)
       IN IF st.currentWeight + poolWeight(pool) > MAX_WEIGHT
          THEN batchLoop(Tail(pools),
                         [batches |-> Append(st.batches, st.currentBatch),
                          currentBatch |-> <<pool>>,
                          currentWeight |-> poolWeight(pool)],
                         MAX_WEIGHT)
          ELSE batchLoop(Tail(pools),
                         [batches |-> st.batches,
                          currentBatch |-> Append(st.currentBatch, pool),
                          currentWeight |-> st.currentWeight + poolWeight(pool)],
                         MAX_WEIGHT)

\* All pools go out as one batch.
MutOneBatch(pools, MAX_WEIGHT) == IF pools = <<>> THEN <<>> ELSE <<pools>>

createBatches(pools, MAX_WEIGHT) ==
  LET done == batchLoop(pools,
                        [batches |-> <<>>, currentBatch |-> <<>>, currentWeight |-> 0],
                        MAX_WEIGHT)
  IN IF Len(done.currentBatch) > 0
     THEN Append(done.batches, done.currentBatch)
     ELSE done.batches

DexTypes == {"v2", "v3"}

\* Pool i of a due list has address i.
DueList(types) == [i \in 1..Len(types) |-> [address |-> i, dexType |-> types[i]]]

\* One weight-2 pool and 49 weight-1 pools.
ScenarioPools == DueList([i \in 1..50 |-> IF i = 1 THEN "v3" ELSE "v2"])

DueLists ==
  UNION { { DueList(types) : types \in [1..n -> DexTypes] } : n \in 0..MaxDue }

\* The ceilings the batching is configured with.
Ceilings == {1, 2, 3, MAX_CALL_WEIGHT_PER_BATCH}

\* Short due lists under every ceiling, and the scenario under the default.
InitBatch ==
  /\ InitServices
  /\ EnginesIdle
  /\ \/ maxWeight \in Ceilings /\ scheduledPools \in DueLists
     \/ maxWeight = MAX_CALL_WEIGHT_PER_BATCH /\ scheduledPools = ScenarioPools

CreateBatches ==
  /\ lastCall.op = "none"
  /\ batches' = createBatches(scheduledPools, maxWeight)
  /\ lastCall' = [op |-> "createBatches"]
  /\ UNCHANGED <<engineVars, now, aliveSet, aliveOrder, gcVars, maxWeight, scheduledPools, refreshVars, hist>>

NextBatch == CreateBatches

SpecBatch == InitBatch /\ [][NextBatch]_vars

\* ------------------------------------- query engine, result handoff
\* The registry's pool kinds.
poolRegistry ==
  (1 :> "v2") @@ (2 :> "v3") @@ (3 :> "v2") @@ [k \in 4..7 |-> "v2"]

Providers == <<"rpcA", "rpcB">>

Blocks == {1, 2}

\* computePrice(result): the price the state of a pool at a block gives.
computePrice(k, blockNumber) ==
  IF k[2] = 7 THEN (IF blockNumber = 1 THEN 10000 ELSE 10002)
  ELSE IF blockNumber = 1 THEN 1000
  ELSE IF k[2] = 1 THEN 1100
  ELSE IF k[2] = 2 THEN 1002
  ELSE IF k[2] = 4 THEN 1050
  ELSE IF k[2] = 5 THEN 1051
  ELSE IF k[2] = 6 THEN 1001
  ELSE 1000

Abs(x) == IF x < 0 THEN -x ELSE x

\* priceDelta = abs(price - lastPrice) / lastPrice against a threshold of
\* num/den; a lastPrice of 0 gives Infinity (above) or NaN (not above).
deltaAbove(price, lastPrice, num, den) ==
  Abs(price - lastPrice) * den > num * lastPrice

\* The pools of a batch still in flight are left out of the cycle.
RECURSIVE MutSkipInFlight(_, _, _)
MutSkipInFlight(alive, order, t) ==
  IF order = <<>> THEN <<>>
  ELSE (IF /\ alive[Head(order)].nextRefresh <= t
           /\ \A b \in inFlight :
                \A i \in 1..Len(b.pools) : b.pools[i] # Head(order)
        THEN <<[address |-> Head(order), dexType |-> poolRegistry[Head(order)[2]]]>>
        ELSE <<>>)
       \o MutSkipInFlight(alive, Tail(order), t)

\* aliveSet.filter(p => p.nextRefresh <= now()): the due pools in the order
\* the Map iterates.
RECURSIVE poolsDue(_, _, _)
poolsDue(alive, order, t) ==
  IF order = <<>> THEN <<>>
  ELSE (IF alive[Head(order)].nextRefresh <= t
        THEN <<[address |-> Head(order), dexType |-> poolRegistry[Head(order)[2]]]>>
        ELSE <<>>)
       \o poolsDue(alive, Tail(order), t)

\* The providers one call of distributeBatches dispatches to, in the order
\* of the batches: providerIndex starts at 0 and grows by one per batch.
dispatchOrder(bs) ==
  [b \in 1..Len(bs) |-> Providers[((b - 1) % Len(Providers)) + 1]]

\* distributeBatches: batch i of the cycle goes to provider i mod n.
distributeBatches(bs, t) ==
  { [ pools |-> [i \in 1..Len(bs[b]) |-> bs[b][i].address],
      provider |-> dispatchOrder(bs)[b],
      sentAt |-> t ] : b \in 1..Len(bs) }

\* scheduleRetry(poolAddress)
scheduleRetry(alive, k, t) == [alive EXCEPT ![k].nextRefresh = t + RETRY_DELAY_MS]

\* The thresholds are met from 5 % and from 0.1 % on.
MutThresholdsInclusive(price, lastPrice) ==
  IF Abs(price - lastPrice) * 100 >= 5 * lastPrice THEN "high"
  ELSE IF Abs(price - lastPrice) * 1000 >= lastPrice THEN "normal"
  ELSE "low"

\* The tier the change of price against the last price gives.
tierOf(price, lastPrice) ==
  IF deltaAbove(price, lastPrice, 5, 100) THEN "high"
  ELSE IF deltaAbove(price, lastPrice, 1, 1000) THEN "normal"
  ELSE "low"

\* The refresh interval of a tier.
intervalOf(tier) ==
  IF tier = "high" THEN HIGH_TIER_INTERVAL_MS
  ELSE IF tier = "normal" THEN NORMAL_TIER_INTERVAL_MS
  ELSE LOW_TIER_INTERVAL_MS

\* Block changed: the price is recomputed, the entry rewritten, the pool's
\* tier and next refresh follow the change of price.
recomputeEntry(st, k, blockNumber, t, tickId) ==
  LET pool == st.alive[k]
      price == computePrice(k, blockNumber)
  IN [st EXCEPT
        !.cache = (k :> [price |-> price, blockNumber |-> blockNumber,
                         tickId |-> tickId, timestamp |-> t,
                         ttl |-> t + CACHE_TTL_MS]) @@ @,
        !.alive[k] =
          [pool EXCEPT
             !.lastPrice = price,
             !.lastBlockSeen = blockNumber,
             !.tier = tierOf(price, pool.lastPrice),
             !.nextRefresh = t + intervalOf(tierOf(price, pool.lastPrice))]]

\* An unchanged block rewrites the entry like a changed one.
MutRewriteOnSameBlock(st, k, blockNumber, t, tickId) ==
  recomputeEntry(st, k, blockNumber, t, tickId)

\* The body of processMulticallResults for one successful result.
updateCache(st, k, blockNumber, t, tickId) ==
  IF blockNumber = st.alive[k].lastBlockSeen
  THEN [st EXCEPT !.cache[k].ttl = t + CACHE_TTL_MS]
  ELSE recomputeEntry(st, k, blockNumber, t, tickId)

\* A failed result discards the whole batch's cache entries.
RECURSIVE MutFailureDropsCache(_, _, _, _, _)
MutFailureDropsCache(st, pools, results, t, tickId) ==
  IF pools = <<>> THEN st
  ELSE LET k == Head(pools)
       IN MutFailureDropsCache(
            IF results[k].success
            THEN updateCache(st, k, results[k].blockNumber, t, tickId)
            ELSE [st EXCEPT !.alive = scheduleRetry(@, k, t),
                            !.cache = [x \in DOMAIN @ \ {k} |-> @[x]],
                            !.retried = @ \cup {k}],
            Tail(pools), results, t, tickId)

\* The try branch: every result of the batch in turn.
RECURSIVE processResults(_, _, _, _, _)
processResults(st, pools, results, t, tickId) ==
  IF pools = <<>> THEN st
  ELSE LET k == Head(pools)
       IN processResults(
            IF results[k].success
            THEN updateCache(st, k, results[k].blockNumber, t, tickId)
            ELSE [st EXCEPT !.alive = scheduleRetry(@, k, t),
                            !.retried = @ \cup {k}],
            Tail(pools), results, t, tickId)

\* Every tracked pool is scheduled for retry.
MutRetryEveryPool(st, pools, t) ==
  [st EXCEPT !.alive = [k \in DOMAIN @ |->
                          [@[k] EXCEPT !.nextRefresh = t + RETRY_DELAY_MS]],
             !.retried = DOMAIN st.alive]

\* The catch branch: every pool of the batch is scheduled for retry.
RECURSIVE retryBatch(_, _, _)
retryBatch(st, pools, t) ==
  IF pools = <<>> THEN st
  ELSE retryBatch([st EXCEPT !.alive = scheduleRetry(@, Head(pools), t),
                             !.retried = @ \cup {Head(pools)}],
                  Tail(pools), t)

Range(seq) == { seq[i] : i \in 1..Len(seq) }

\* What a provider may answer to a batch: a transport failure, or one result
\* per pool, failed or successful at some block.
Results ==
  { [success |-> FALSE, blockNumber |-> 0] } \cup
  { [success |-> TRUE, blockNumber |-> b] : b \in Blocks }

Responses(batch) ==
  { [outcome |-> "throw", results |-> <<>>] } \cup
  { [outcome |-> "results", results |-> r] : r \in [Range(batch.pools) -> Results] }

\* The registration that feeds the refresh loop.
RefreshTokens ==
  << [address |-> 21, chainId |-> 137,
      pricingPools |-> <<Route(1, "USDC"), Route(2, "WETH")>>],
     [address |-> 22, chainId |-> 137, pricingPools |-> <<Route(3, "USDC")>>] >>

RefreshCeilings == {3, MAX_CALL_WEIGHT_PER_BATCH}

InitRefresh ==
  /\ InitServices
  /\ EnginesIdle
  /\ maxWeight \in RefreshCeilings
  /\ scheduledPools = <<>>

RegisterRefresh ==
  /\ GetMarketOverview(137, RefreshTokens)
  /\ lastCall' = [op |-> "overview"]
  /\ UNCHANGED hist

\* The keys of a list of due pools.
dueKeys(due) == { due[i].address : i \in 1..Len(due) }

\* The pool keys of the batches, batch by batch.
batchKeys(bs) ==
  [b \in 1..Len(bs) |-> [i \in 1..Len(bs[b]) |-> bs[b][i].address]]

\* The log of the cycles keeps, for every set of two or more due pools, the
\* batches of the first cycle that selected it.
logCycle(log, due, bs) ==
  IF Len(due) < 2 \/ dueKeys(due) \in DOMAIN log THEN log
  ELSE (dueKeys(due) :> batchKeys(bs)) @@ log

\* executionLoop, fired by its timer.
ExecutionLoop ==
  LET due == poolsDue(aliveSet, aliveOrder, now)
  IN /\ now >= nextLoop
     /\ scheduledPools' = due
     /\ batches' = IF Len(due) > 0 THEN createBatches(due, maxWeight) ELSE <<>>
     /\ inFlight' = inFlight \cup distributeBatches(batches', now)
     /\ nextLoop' = now + EXECUTION_LOOP_MS
     /\ dispatchLog' = dispatchLog \o dispatchOrder(batches')
     /\ cycleLog' = logCycle(cycleLog, due, batches')
     /\ lastCall' = [op |-> "loop"]
     /\ UNCHANGED <<rpcProviders, roundRobinCounters, rpcLog, priceVars, marketCache, serviceVars, now,
                    aliveSet, aliveOrder, gcVars, maxWeight, cache, tickCounter, hist>>

\* The pools of a batch the tracker still holds.
RECURSIVE trackedOf(_, _)
trackedOf(pools, alive) ==
  IF pools = <<>> THEN <<>>
  ELSE IF Head(pools) \in DOMAIN alive
       THEN <<Head(pools)>> \o trackedOf(Tail(pools), alive)
       ELSE trackedOf(Tail(pools), alive)

\* The results in turn, for pools that may have left the tracker since the
\* batch was sent: aliveSet.get gives undefined for such a pool, and the
\* read of pool.lastBlockSeen for its successful result throws, which ends
\* the loop and enters the catch branch; a retry scheduled for it finds no
\* pool to schedule.
RECURSIVE processAnswers(_, _, _, _, _)
processAnswers(st, pools, results, t, tickId) ==
  IF pools = <<>> THEN [st |-> st, thrown |-> FALSE]
  ELSE IF Head(pools) \in DOMAIN st.alive
       THEN processAnswers(processResults(st, <<Head(pools)>>, results, t, tickId),
                           Tail(pools), results, t, tickId)
       ELSE IF results[Head(pools)].success
            THEN [st |-> st, thrown |-> TRUE]
            ELSE processAnswers(st, Tail(pools), results, t, tickId)

\* The answer of the provider to one batch in flight arrives.
ProcessBatch ==
  \E batch \in inFlight : \E response \in Responses(batch) :
    LET st == [alive |-> aliveSet, cache |-> cache, retried |-> {}]
        answered == processAnswers(st, batch.pools, response.results, now,
                                   tickCounter + 1)
        done == IF response.outcome = "throw"
                THEN retryBatch(st, trackedOf(batch.pools, aliveSet), now)
                ELSE IF answered.thrown
                THEN retryBatch(answered.st, trackedOf(batch.pools, aliveSet), now)
                ELSE answered.st
    IN /\ aliveSet' = done.alive
       /\ cache' = done.cache
       /\ tickCounter' = IF response.outcome = "throw"
                         THEN tickCounter ELSE tickCounter + 1
       /\ inFlight' = inFlight \ {batch}
       /\ lastCall' = [op |-> "batch", batch |-> batch,
                       outcome |-> response.outcome,
                       results |-> response.results,
                       retried |-> done.retried]
       /\ UNCHANGED <<engineVars, aliveOrder, now, gcVars, batchVars, nextLoop, hist>>

TickRefresh ==
  /\ now < nextLoop
  /\ now + TickMs <= RefreshHorizonMs
  /\ now' = now + TickMs
  /\ lastCall' = NoCall
  /\ UNCHANGED <<engineVars, aliveSet, aliveOrder, gcVars, batchVars, refreshVars, hist>>

NextRefresh == RegisterRefresh \/ ExecutionLoop \/ ProcessBatch \/ TickRefresh

SpecRefresh == InitRefresh /\ [][NextRefresh]_vars

\* ------------------------------------------------ tier after refresh
\* The pools whose prices cover the thresholds, one token on each.
TierPools == 1..7

TierTokens(pool) ==
  << [address |-> 30 + pool, chainId |-> 137,
      pricingPools |-> <<Route(pool, "USDC")>>] >>

\* One pool is registered and refreshed cycle by cycle.
RegisterTier ==
  \E pool \in TierPools :
    /\ aliveSet = <<>>
    /\ GetMarketOverview(137, TierTokens(pool))
    /\ lastCall' = [op |-> "overview"]
    /\ UNCHANGED hist

NextTier == RegisterTier \/ ExecutionLoop \/ ProcessBatch \/ TickRefresh

SpecTier == InitRefresh /\ [][NextTier]_vars

\* ------------------------------------------------- consistent read
\* The cache keys of the pools on the pricing routes of the tokens, token
\* by token and route by route.
RECURSIVE routeHops(_)
routeHops(tokens) ==
  IF tokens = <<>> THEN <<>>
  ELSE [i \in 1..Len(Head(tokens).pricingPools) |->
          poolKeyOf(Head(tokens).chainId, Head(tokens).pricingPools[i].pool)]
       \o routeHops(Tail(tokens))

\* return null
NoPrices == [ok |-> FALSE, results |-> <<>>]

\* The loops of getConsistentPrices: the entries collected, unless one is
\* missing or stale.
RECURSIVE collectEntries(_, _, _, _)
collectEntries(hops, c, t, results) ==
  IF hops = <<>> THEN [ok |-> TRUE, results |-> results]
  ELSE IF Head(hops) \notin DOMAIN c THEN NoPrices
  ELSE IF c[Head(hops)].ttl < t THEN NoPrices
  ELSE collectEntries(Tail(hops), c, t, Append(results, c[Head(hops)]))

\* The entries are returned whatever ticks they carry.
MutMixedTicks(tokens, c, t) == collectEntries(routeHops(tokens), c, t, <<>>)

getConsistentPrices(tokens, c, t) ==
  LET got == collectEntries(routeHops(tokens), c, t, <<>>)
      tickIds == { got.results[i].tickId : i \in 1..Len(got.results) }
  IN IF ~got.ok THEN NoPrices
     ELSE IF Cardinality(tickIds) > 1 THEN NoPrices
     ELSE got

\* The token lists a client reads prices of.
ReadLists ==
  { <<>>, <<RefreshTokens[1]>>, <<RefreshTokens[2]>>, RefreshTokens,
    <<RefreshTokens[2], RefreshTokens[1]>> }

\* The entries processMulticallResults may have left for pool k: written
\* by the cycle of 5 s or of 10 s, under one of the tick ids given out.
EntriesOf(k) ==
  { [price |-> computePrice(k, b), blockNumber |-> b, tickId |-> id,
     timestamp |-> ts, ttl |-> ts + CACHE_TTL_MS] :
      b \in {1}, id \in 1..MaxTick, ts \in {TickMs, 2 * TickMs} }

ReadKeys == Range(routeHops(RefreshTokens))

\* The caches a read may meet: each pool of the routes with an entry or
\* none, the entries of one tick id written at one time, a later tick id
\* no earlier.
Caches ==
  UNION { { c \in [keys -> UNION { EntriesOf(k) : k \in ReadKeys }] :
              /\ \A k \in keys : c[k] \in EntriesOf(k)
              /\ \A k1, k2 \in keys :
                   /\ c[k1].tickId = c[k2].tickId
                        => c[k1].timestamp = c[k2].timestamp
                   /\ c[k1].tickId < c[k2].tickId
                        => c[k1].timestamp <= c[k2].timestamp } :
          keys \in SUBSET ReadKeys }

\* The pools of the routes as registered at 0 s and refreshed as the cache
\* tells.
ReadAlive(c) ==
  [k \in ReadKeys |->
     IF k \in DOMAIN c
     THEN [NewAlivePool(0) EXCEPT !.lastBlockSeen = c[k].blockNumber,
                                  !.lastPrice = c[k].price,
                                  !.nextRefresh = c[k].timestamp + HIGH_TIER_INTERVAL_MS]
     ELSE [NewAlivePool(0) EXCEPT !.nextRefresh = 2 * TickMs + RETRY_DELAY_MS]]

InitRead ==
  /\ now = 2 * TickMs
  /\ cache \in Caches
  /\ aliveSet = ReadAlive(cache)
  /\ aliveOrder = insertionOrder(<<>>, routeHops(RefreshTokens))
  /\ cycleLog = <<>>
  /\ marketCache = <<>>
  /\ tokenCache = <<>>
  /\ pendingLoads = [c \in Chains |-> 0]
  /\ storageReads = [c \in Chains |-> 0]
  /\ invalidations = [c \in Chains |-> 0]
  /\ loadsBegun = [c \in Chains |-> <<>>]
  /\ loadedAt = [c \in Chains |-> 0]
  /\ queue = <<>>
  /\ forwarded = <<>>
  /\ AppIdle
  /\ SchedulerRunning
  /\ poolsWithZeroRefCount = <<>>
  /\ nextPoolCleanup = POOL_CLEANUP_INTERVAL_MS
  /\ batches = <<>>
  /\ inFlight = {}
  /\ nextLoop = 2 * TickMs + EXECUTION_LOOP_MS
  /\ tickCounter = MaxTick
  /\ hist = [k \in PoolKeys |-> NoHist]
  /\ lastCall = NoCall
  /\ EnginesIdle
  /\ maxWeight = MAX_CALL_WEIGHT_PER_BATCH
  /\ scheduledPools = <<>>

GetConsistentPrices(tokens) ==
  /\ lastCall' = [op |-> "getConsistentPrices", tokens |-> tokens,
                  result |-> getConsistentPrices(tokens, cache, now)]
  /\ UNCHANGED <<engineVars, now, aliveSet, aliveOrder, gcVars, batchVars, refreshVars, hist>>

ReadPrices == \E tokens \in ReadLists : GetConsistentPrices(tokens)

TickRead ==
  /\ now + TickMs <= ReadHorizonMs
  /\ now' = now + TickMs
  /\ lastCall' = NoCall
  /\ UNCHANGED <<engineVars, aliveSet, aliveOrder, gcVars, batchVars, refreshVars, hist>>

NextRead == ReadPrices \/ TickRead

SpecRead == InitRead /\ [][NextRead]_vars

\* ------------------------------------------------ state cache sweep
\* The sweep deletes the entries whose time to live has run out.
MutSweepExpired(c, t) == [k \in { x \in DOMAIN c : c[x].ttl > t } |-> c[k]]

\* GCManager.cleanupStateCache: the body counts the purged entries and
\* purges none.
cleanupStateCache(c, t) ==
  LET purgedCount == 0
  IN c

\* One run of cleanupStateCache, fired by its interval timer.
CleanupStateCache ==
  /\ now >= STATE_CLEANUP_INTERVAL_MS
  /\ lastCall.op # "cleanupStateCache"
  /\ cache' = cleanupStateCache(cache, now)
  /\ lastCall' = [op |-> "cleanupStateCache", before |-> cache]
  /\ UNCHANGED <<engineVars, now, aliveSet, aliveOrder, gcVars, batchVars, inFlight,
                 nextLoop, tickCounter, hist>>

NextSweep == CleanupStateCache \/ ReadPrices \/ TickRead

SpecSweep == InitRead /\ [][NextSweep]_vars

\* ----------------------------------------------- SpotPricingEngine
\* Token addresses as callers and the registry write them; two of them
\* carry upper-case letters.
Addresses == {"usdc_eth", "usdc_pol", "USDC_POL", "weth", "WETH", "wbtc"}

toLowerCase(address) ==
  IF address = "USDC_POL" THEN "usdc_pol"
  ELSE IF address = "WETH" THEN "weth"
  ELSE address

USD_STABLECOINS == (1 :> {"usdc_eth"}) @@ (137 :> {"usdc_pol"})

TOKEN_DECIMALS == ("usdc_eth" :> 6) @@ ("usdc_pol" :> 6) @@ ("weth" :> 18)

\* getDecimals: the hardcoded lookup, 18 for a token without metadata.
getDecimals(tokenAddress) ==
  IF toLowerCase(tokenAddress) \in DOMAIN TOKEN_DECIMALS
  THEN TOKEN_DECIMALS[toLowerCase(tokenAddress)]
  ELSE 18

\* The classification compares the address as written.
MutCaseSensitive(tokenAddress, chainId) ==
  IF chainId \in DOMAIN USD_STABLECOINS
  THEN tokenAddress \in USD_STABLECOINS[chainId]
  ELSE FALSE

isUsdStablecoin(tokenAddress, chainId) ==
  IF chainId \in DOMAIN USD_STABLECOINS
  THEN toLowerCase(tokenAddress) \in USD_STABLECOINS[chainId]
  ELSE FALSE

\* storageService.getPoolRegistry(chainId).pricingRoutes[token]
routesOf(registry, chainId, token) ==
  IF token \in DOMAIN registry[chainId] THEN registry[chainId][token] ELSE <<>>

\* The smallest member of a non-empty set of indexes, 0 for the empty set.
FirstOf(indexes) ==
  IF indexes = {} THEN 0
  ELSE CHOOSE i \in indexes : \A j \in indexes : i <= j

\* The first route with a cached pool is taken, stable base or not.
MutFirstCached(routes, states, chainId) ==
  FirstOf({ i \in 1..Len(routes) : routes[i].pool \in DOMAIN states })

\* The two loops that choose bestRoute: the index of the route chosen, 0
\* when no route has pool state in cache.
selectRoute(routes, states, chainId) ==
  LET stable == { i \in 1..Len(routes) :
                    /\ routes[i].pool \in DOMAIN states
                    /\ isUsdStablecoin(routes[i].base, chainId) }
      cached == { i \in 1..Len(routes) : routes[i].pool \in DOMAIN states }
  IN IF stable # {} THEN FirstOf(stable) ELSE FirstOf(cached)

\* The price of the token in units of the hop's base: the pool it is read
\* from, the side of the pool the token is on, and the decimal adjustment.
priceInBaseToken(normalizedToken, pool, poolState) ==
  [pool |-> pool,
   side |-> IF toLowerCase(poolState.token0) = normalizedToken
            THEN "token0" ELSE "token1",
   adjust |-> getDecimals(poolState.token0) - getDecimals(poolState.token1)]

\* Results of computeSpotPrice: null, or a price as the product of the hop
\* prices it multiplied; 1.0 is the empty product.
Null == [kind |-> "null", factors |-> <<>>]

UsdPrice(factors) == [kind |-> "price", factors |-> factors]

\* The call has not returned after MaxDepth recursive calls.
Recursing == [kind |-> "recursing", factors |-> <<>>]

Outcome(result, hop, calls, reads) ==
  [result |-> result, hop |-> hop, calls |-> calls, reads |-> reads]

\* The calls of getPoolState the two loops and the re-read make.
cacheReads(routes, states, chainId) ==
  LET stable == { i \in 1..Len(routes) :
                    /\ routes[i].pool \in DOMAIN states
                    /\ isUsdStablecoin(routes[i].base, chainId) }
      cached == { i \in 1..Len(routes) : routes[i].pool \in DOMAIN states }
  IN IF stable # {} THEN FirstOf(stable) + 1
     ELSE IF cached # {} THEN Len(routes) + FirstOf(cached) + 1
     ELSE 2 * Len(routes)

\* computeSpotPrice(tokenAddress, chainId) over the registry and the pool
\* states in cache; depth is the number of recursive calls still followed.
RECURSIVE computeSpotPrice(_, _, _, _, _)
computeSpotPrice(tokenAddress, chainId, registry, states, depth) ==
  LET normalizedToken == toLowerCase(tokenAddress)
      routes == routesOf(registry, chainId, normalizedToken)
      best == selectRoute(routes, states, chainId)
      bestRoute == routes[best]
      reads == 1 + cacheReads(routes, states, chainId)
      hopPrice == priceInBaseToken(normalizedToken, bestRoute.pool,
                                   states[bestRoute.pool])
  IN IF isUsdStablecoin(tokenAddress, chainId)
     THEN Outcome(UsdPrice(<<>>), 0, 1, 0)
     ELSE IF Len(routes) = 0 THEN Outcome(Null, 0, 1, 1)
     ELSE IF best = 0 THEN Outcome(Null, 0, 1, reads)
     ELSE IF isUsdStablecoin(bestRoute.base, chainId)
     THEN Outcome(UsdPrice(<<hopPrice>>), best, 1, reads)
     ELSE IF depth = 0 THEN Outcome(Recursing, best, 1, reads)
     ELSE LET base == computeSpotPrice(bestRoute.base, chainId, registry,
                                       states, depth - 1)
          IN Outcome(IF base.result.kind = "price"
                     THEN UsdPrice(<<hopPrice>> \o base.result.factors)
                     ELSE base.result,
                     best, 1 + base.calls, reads + base.reads)

\* The tokens the registry has routes for, the pools of the routes, and the
\* bases a route of a token may name.
RoutedTokens == {"weth", "wbtc"}

PricingPools == {"p1", "p2"}

BasesOf(token) == {"usdc_pol"} \cup (RoutedTokens \ {token})

RoutesOf(token) ==
  UNION { [1..n -> { Route(pool, base) :
                       pool \in PricingPools, base \in BasesOf(token) }] :
          n \in 0..MaxRouteHops }

\* The registries of chain 137: a route list per routed token.
Registries ==
  { [token \in RoutedTokens |-> IF token = "weth" THEN w ELSE b] :
      w \in RoutesOf("weth"), b \in RoutesOf("wbtc") }

\* The state a pool has when the cache holds it.
PoolStateOf(pool) ==
  IF pool = "p1" THEN [token0 |-> "WETH", token1 |-> "usdc_pol"]
  ELSE [token0 |-> "wbtc", token1 |-> "weth"]

InitPrice ==
  /\ InitServices
  /\ maxWeight = MAX_CALL_WEIGHT_PER_BATCH
  /\ scheduledPools = <<>>
  /\ rpcProviders = initializeProviders(EnvKeys)
  /\ roundRobinCounters = initializeCounters
  /\ rpcLog = [c \in RpcChains |-> <<>>]
  /\ dispatchLog = <<>>
  /\ \E registry \in Registries :
       pricingRoutes = (1 :> <<>>) @@ (137 :> registry)
  /\ \E pools \in SUBSET PricingPools :
       poolStates = [pool \in pools |-> PoolStateOf(pool)]

ComputeSpotPrice(tokenAddress, chainId) ==
  /\ lastCall' = [op |-> "computeSpotPrice", tokenAddress |-> tokenAddress,
                  chainId |-> chainId,
                  outcome |-> computeSpotPrice(tokenAddress, chainId,
                                               pricingRoutes, poolStates,
                                               MaxDepth)]
  /\ UNCHANGED <<engineVars, now, aliveSet, aliveOrder, gcVars, batchVars, refreshVars, hist>>

NextPrice ==
  \E tokenAddress \in Addresses, chainId \in Chains :
    ComputeSpotPrice(tokenAddress, chainId)

SpecPrice == InitPrice /\ [][NextPrice]_vars

\* ----------------------------------------------- provider assignment
\* RpcConfig.getNextRpcEndpoint(chainId)
GetNextRpcEndpoint(chainId) ==
  /\ Len(rpcLog[chainId]) < MaxAssign
  /\ IF Len(availableProviders(rpcProviders, chainId)) = 0
     THEN /\ lastCall' = [op |-> "getNextRpcEndpoint", chainId |-> chainId,
                          threw |-> TRUE]
          /\ UNCHANGED <<roundRobinCounters, rpcLog>>
     ELSE LET next == getNextRpcEndpoint(rpcProviders, roundRobinCounters, chainId)
          IN /\ roundRobinCounters' = next.counters
             /\ rpcLog' = [rpcLog EXCEPT ![chainId] = Append(@, next.provider)]
             /\ lastCall' = [op |-> "getNextRpcEndpoint", chainId |-> chainId,
                             threw |-> FALSE]
  /\ UNCHANGED <<rpcProviders, dispatchLog, priceVars, cycleLog, marketCache, serviceVars, now, aliveSet, aliveOrder, gcVars,
                 batchVars, refreshVars, hist>>

\* RpcConfig.reinitialize() under the environment env; the assignments
\* logged start anew with the new provider list.
Reinitialize(env) ==
  /\ rpcProviders' = initializeProviders(env)
  /\ roundRobinCounters' = [c \in DOMAIN roundRobinCounters |->
                             IF c \in DOMAIN initializeCounters
                             THEN initializeCounters[c]
                             ELSE roundRobinCounters[c]]
  /\ rpcLog' = [c \in RpcChains |-> <<>>]
  /\ lastCall' = [op |-> "reinitialize"]
  /\ UNCHANGED <<dispatchLog, priceVars, cycleLog, marketCache, serviceVars, now, aliveSet, aliveOrder, gcVars, batchVars,
                 refreshVars, hist>>

\* RpcConfig.resetCounters(): the rotation, and its log, start anew.
ResetCounters ==
  /\ roundRobinCounters' = [c \in DOMAIN roundRobinCounters |->
                             IF c \in DOMAIN initializeCounters
                             THEN initializeCounters[c]
                             ELSE roundRobinCounters[c]]
  /\ rpcLog' = [c \in RpcChains |-> <<>>]
  /\ lastCall' = [op |-> "resetCounters"]
  /\ UNCHANGED <<rpcProviders, dispatchLog, priceVars, cycleLog, marketCache, serviceVars, now, aliveSet, aliveOrder, gcVars,
                 batchVars, refreshVars, hist>>

\* The batches of one cycle, as createBatches hands them on.
CycleBatches ==
  { createBatches(DueList(types), MAX_WEIGHT) :
      types \in UNION { [1..n -> DexTypes] : n \in 1..MaxCyclePools },
      MAX_WEIGHT \in {1, MAX_CALL_WEIGHT_PER_BATCH} }

\* distributeBatches(batches) for the batches of one cycle.
DistributeBatches(bs) ==
  /\ Len(dispatchLog) + Len(bs) <= MaxAssign
  /\ inFlight' = inFlight \cup distributeBatches(bs, now)
  /\ dispatchLog' = dispatchLog \o dispatchOrder(bs)
  /\ lastCall' = [op |-> "distributeBatches", batches |-> Len(bs)]
  /\ UNCHANGED <<rpcProviders, roundRobinCounters, rpcLog, priceVars, cycleLog, marketCache, serviceVars, now,
                 aliveSet, aliveOrder, gcVars, batchVars, cache, nextLoop, tickCounter, hist>>

InitRpc ==
  /\ InitServices
  /\ maxWeight = MAX_CALL_WEIGHT_PER_BATCH
  /\ scheduledPools = <<>>
  /\ \E env \in SUBSET EnvKeys : rpcProviders = initializeProviders(env)
  /\ roundRobinCounters = initializeCounters
  /\ rpcLog = [c \in RpcChains |-> <<>>]
  /\ dispatchLog = <<>>
  /\ pricingRoutes = [c \in Chains |-> <<>>]
  /\ poolStates = <<>>

NextEndpoint == \E c \in RpcChains : GetNextRpcEndpoint(c)

Reconfigure == \E env \in SUBSET EnvKeys : Reinitialize(env)

Distribute == \E bs \in CycleBatches : DistributeBatches(bs)

NextRpc == NextEndpoint \/ Reconfigure \/ ResetCounters \/ Distribute

SpecRpc == InitRpc /\ [][NextRpc]_vars

\* ================================================================ claims
RefCount(k) == aliveSet[k].refCount

\* C1 (as stated): every referenced pool key has exactly one PoolRef, whose
\* ref-count is the number of registrations minus the number of releases.
C1_RefCountIsRegsMinusRels ==
  \A k \in PoolKeys :
    hist[k].regs > 0 => Tracked(k) /\ RefCount(k) = hist[k].regs - hist[k].rels

\* C1 (amended): a tracked pool's ref-count is never negative, and it equals
\* registrations minus releases as long as every release found the pool
\* tracked with ref-count > 0 and every incrementRefCount found it tracked;
\* such a pool key, once registered, has its PoolRef.
C1_RefCountExactUnlessClamped ==
  \A k \in PoolKeys :
    /\ Tracked(k) => RefCount(k) >= 0
    /\ (hist[k].exact /\ hist[k].regs > 0) =>
          Tracked(k) /\ RefCount(k) = hist[k].regs - hist[k].rels

C1_Witness ==
  \E k \in PoolKeys :
    /\ Tracked(k) /\ hist[k].exact
    /\ hist[k].regs = 2 /\ hist[k].rels = 1 /\ RefCount(k) = 1

\* The case of C2: an overview of three tokens with the same chainId field
\* that all have the one route to pool p, p not tracked before.
ThreeTokensOnePool(k) ==
  /\ lastCall.op = "overview"
  /\ lastCall.asked = 3
  /\ lastCall.uniform
  /\ lastCall.single = k[2] /\ lastCall.chainId = k[1]
  /\ lastCall.created = {k}

\* C2 (as stated): three tokens sharing one pool give one PoolRef with
\* ref-count 3, tier high, next-due now + 5s.
C2_ThreeTokensRefCountThree ==
  \A k \in PoolKeys :
    ThreeTokensOnePool(k) =>
      /\ Tracked(k) /\ RefCount(k) = 3
      /\ aliveSet[k].tier = "high"
      /\ aliveSet[k].nextRefresh = now + HIGH_TIER_INTERVAL_MS

\* C2 (amended): the three tokens are deduplicated to one before
\* handleTokenInterest, so the one PoolRef has ref-count 1, tier high and
\* next-due now + 5s.
C2_ThreeTokensRefCountOne ==
  \A k \in PoolKeys :
    ThreeTokensOnePool(k) =>
      /\ Tracked(k) /\ RefCount(k) = 1
      /\ aliveSet[k].tier = "high"
      /\ aliveSet[k].nextRefresh = now + HIGH_TIER_INTERVAL_MS
      /\ \A k2 \in DOMAIN aliveSet : k2 # k => k2 \notin lastCall.created

C2_Witness ==
  /\ now > 0
  /\ \E k \in PoolKeys : ThreeTokensOnePool(k) /\ Tracked(k)

\* registerInterest as the service performs it, on a tracker state.
registerInterest(alive, tokens, chainId, t) ==
  handleTokenInterest(alive, deduplicateTokensByPool(tokens), chainId, t)

C4_RemovalAfterFullGrace ==
  lastCall.op = "cleanup" =>
    \A k \in lastCall.removed :
      /\ hist[k].zeroAt >= 0
      /\ now - hist[k].zeroAt >= POOL_GRACE_PERIOD_MS

\* C5: a pool whose ref-count dropped to 0 at time T and stayed there is no
\* longer tracked once more than the grace period has passed since T.
C5_AbsentAfterGrace ==
  \A k \in DOMAIN aliveSet :
    RefCount(k) = 0 => now - hist[k].zeroAt <= POOL_GRACE_PERIOD_MS

\* C6: after a pool in its grace period was re-referenced, a later drop to
\* ref-count 0 is timed from that drop: the grace start on record is never
\* older than the pool's most recent transition to ref-count 0.
C6_FreshGraceAfterRevival ==
  \A k \in DOMAIN poolsWithZeroRefCount :
    (Tracked(k) /\ RefCount(k) = 0) =>
      poolsWithZeroRefCount[k] >= hist[k].zeroAt

\* The cache entry of k is the same before and after the step.
EntryUntouched(k) ==
  /\ (k \in DOMAIN cache') = (k \in DOMAIN cache)
  /\ k \in DOMAIN cache => cache'[k] = cache[k]

\* The cache entry of k after the step is the one its result gives: the old
\* one with a new expiry when the block is the last one seen, a new one of
\* the result's block and price otherwise.
EntryFromResult(k, blockNumber) ==
  /\ k \in DOMAIN cache'
  /\ IF blockNumber = aliveSet[k].lastBlockSeen
     THEN cache'[k] = [cache[k] EXCEPT !.ttl = now + CACHE_TTL_MS]
     ELSE /\ cache'[k].blockNumber = blockNumber
          /\ cache'[k].price = computePrice(k, blockNumber)
          /\ cache'[k].timestamp = now
          /\ cache'[k].ttl = now + CACHE_TTL_MS

FailedOf(call) ==
  { k \in Range(call.batch.pools) : ~call.results[k].success }

\* C7: when one pool P of an answered batch failed, every other pool's cache
\* entry is the one its result gives, the cache entry of P is as it was, and
\* P alone is scheduled for retry.
C7_PerCallFailureIsolated ==
  [][ (/\ lastCall'.op = "batch"
       /\ lastCall'.outcome = "results"
       /\ Cardinality(FailedOf(lastCall')) = 1)
      => /\ lastCall'.retried = FailedOf(lastCall')
         /\ \A k \in Range(lastCall'.batch.pools) :
              IF k \in FailedOf(lastCall')
              THEN /\ EntryUntouched(k)
                   /\ aliveSet'[k] =
                        [aliveSet[k] EXCEPT !.nextRefresh = now + RETRY_DELAY_MS]
              ELSE EntryFromResult(k, lastCall'.results[k].blockNumber)
         /\ \A k \in DOMAIN aliveSet \ Range(lastCall'.batch.pools) :
              EntryUntouched(k) /\ aliveSet'[k] = aliveSet[k] ]_vars

\* A batch of three pools answered with one failure, for a pool that had a
\* cache entry from an earlier cycle.
C7_Witness ==
  /\ lastCall.op = "batch"
  /\ lastCall.outcome = "results"
  /\ Len(lastCall.batch.pools) = 3
  /\ \E p \in Range(lastCall.batch.pools) :
       /\ FailedOf(lastCall) = {p}
       /\ p \in DOMAIN cache /\ cache[p].timestamp < now
       /\ aliveSet[p].nextRefresh = now + RETRY_DELAY_MS
       /\ \A k \in Range(lastCall.batch.pools) \ {p} :
            k \in DOMAIN cache /\ cache[k].ttl = now + CACHE_TTL_MS

\* C8: when the dispatch of a batch fails as a whole, the cache is as it
\* was, every pool of the batch and no other pool is due again after the
\* retry delay, and the other batches in flight stay in flight to be
\* processed on their own answers.
C8_BatchFailureIsolated ==
  [][ (lastCall'.op = "batch" /\ lastCall'.outcome = "throw")
      => /\ cache' = cache
         /\ lastCall'.retried = Range(lastCall'.batch.pools)
         /\ DOMAIN aliveSet' = DOMAIN aliveSet
         /\ \A k \in DOMAIN aliveSet :
              aliveSet'[k] =
                IF k \in Range(lastCall'.batch.pools)
                THEN [aliveSet[k] EXCEPT !.nextRefresh = now + RETRY_DELAY_MS]
                ELSE aliveSet[k]
         /\ inFlight' = inFlight \ {lastCall'.batch} ]_vars

\* A batch answered in full after another batch of the same cycle failed as
\* a whole: the failed batch's pool is due for retry and has no cache entry,
\* the answered batch's pools have theirs.
C8_Witness ==
  /\ lastCall.op = "batch"
  /\ lastCall.outcome = "results"
  /\ FailedOf(lastCall) = {}
  /\ \A k \in Range(lastCall.batch.pools) :
       k \in DOMAIN cache /\ cache[k].timestamp = now
  /\ \E k \in DOMAIN aliveSet \ Range(lastCall.batch.pools) :
       /\ k \notin DOMAIN cache
       /\ aliveSet[k].nextRefresh = lastCall.batch.sentAt + RETRY_DELAY_MS

batchWeight(batch) ==
  LET sum[i \in 0..Len(batch)] ==
        IF i = 0 THEN 0 ELSE sum[i - 1] + poolWeight(batch[i])
  IN sum[Len(batch)]

Flatten(bs) ==
  LET cat[i \in 0..Len(bs)] == IF i = 0 THEN <<>> ELSE cat[i - 1] \o bs[i]
  IN cat[Len(bs)]

\* C9: when no due pool weighs more than the ceiling, no batch of
\* createBatches weighs more than the ceiling; one weight-2 pool and 49
\* weight-1 pools under ceiling 50 give at least two batches.
C9_BatchWeightWithinCeiling ==
  (/\ lastCall.op = "createBatches"
   /\ \A i \in 1..Len(scheduledPools) : poolWeight(scheduledPools[i]) <= maxWeight)
  => /\ \A b \in 1..Len(batches) : batchWeight(batches[b]) <= maxWeight
     /\ (scheduledPools = ScenarioPools /\ maxWeight = 50) => Len(batches) >= 2

C9_Witness ==
  /\ lastCall.op = "createBatches"
  /\ scheduledPools = ScenarioPools /\ maxWeight = 50
  /\ Len(batches) = 2
  /\ batchWeight(batches[1]) = 50 /\ batchWeight(batches[2]) = 1

\* C10: the batches of createBatches hold every due pool exactly once, in
\* selection order; a pool heavier than the ceiling is alone in its batch;
\* no batch is empty.
C10_BatchesPartitionDuePools ==
  lastCall.op = "createBatches" =>
    /\ Flatten(batches) = scheduledPools
    /\ \A b \in 1..Len(batches) :
         /\ batches[b] # <<>>
         /\ \A i \in 1..Len(batches[b]) :
              poolWeight(batches[b][i]) > maxWeight => Len(batches[b]) = 1

\* What of C10 holds: nothing but the absence of empty batches fails.
C10_AllButNonEmpty ==
  lastCall.op = "createBatches" =>
    /\ Flatten(batches) = scheduledPools
    /\ \A b \in 1..Len(batches) :
         \A i \in 1..Len(batches[b]) :
           poolWeight(batches[b][i]) > maxWeight => Len(batches[b]) = 1

\* ------------------------------------------------ provider rotation
\* How often provider p was chosen by the assignments i..j of log.
ChosenIn(log, i, j, p) == Cardinality({ x \in i..j : log[x] = p })

\* Over any k consecutive assignments of log, each of the n providers is
\* chosen floor(k/n) or ceil(k/n) times.
Balanced(log, names) ==
  LET n == Cardinality(names)
  IN \A i \in 1..Len(log) : \A j \in i..Len(log) : \A p \in names :
       LET k == j - i + 1
       IN ChosenIn(log, i, j, p) \in { k \div n, (k + n - 1) \div n }

ProviderNames(chainId) ==
  Range([i \in 1..Len(availableProviders(rpcProviders, chainId)) |->
           availableProviders(rpcProviders, chainId)[i].name])

\* The assignments of getNextRpcEndpoint rotate, chain by chain.
RpcConfigRotates ==
  \A c \in RpcChains :
    /\ Range(rpcLog[c]) \subseteq ProviderNames(c)
    /\ Balanced(rpcLog[c], ProviderNames(c))

\* C11: provider assignment is round-robin: the successive assignments of
\* getNextRpcEndpoint for a chain, and the successive assignments of
\* distributeBatches, choose each provider floor(k/n) or ceil(k/n) times
\* over any k consecutive assignments, whatever the batches hold and
\* whatever is assigned for another chain in between.
C11_ProviderRotation ==
  /\ RpcConfigRotates
  /\ Balanced(dispatchLog, Range(Providers))

\* ------------------------------------------------------- block skip
\* The pools of an answered batch whose successful result carries the block
\* the pool has last seen.
SameBlockOf(call, alive) ==
  { k \in Range(call.batch.pools) :
      /\ call.results[k].success
      /\ call.results[k].blockNumber = alive[k].lastBlockSeen }

\* C12: a successful result that carries the block number the pool has last
\* seen leaves the price, block number and tick id of the pool's cache entry
\* and the last block and last price of the pool as they were; only the
\* expiry of the entry moves, to now + 30 s.
C12_BlockSkipIdempotent ==
  [][ (lastCall'.op = "batch" /\ lastCall'.outcome = "results")
      => \A k \in SameBlockOf(lastCall', aliveSet) :
           /\ k \in DOMAIN cache /\ k \in DOMAIN cache'
           /\ cache'[k] = [cache[k] EXCEPT !.ttl = now + CACHE_TTL_MS]
           /\ aliveSet'[k].lastBlockSeen = aliveSet[k].lastBlockSeen
           /\ aliveSet'[k].lastPrice = aliveSet[k].lastPrice ]_vars

\* A pool refreshed in an earlier cycle has been answered again with the
\* same block: its entry is the earlier one, expiring 30 s from now.
C12_Witness ==
  /\ lastCall.op = "batch"
  /\ lastCall.outcome = "results"
  /\ \E k \in SameBlockOf(lastCall, aliveSet) :
       /\ k \in DOMAIN cache
       /\ cache[k].blockNumber = lastCall.results[k].blockNumber
       /\ cache[k].timestamp < now
       /\ cache[k].ttl = now + CACHE_TTL_MS

\* ------------------------------------------------- tick consistency
\* The tick ids of the cache entries of the hops of the tokens.
HopTicks(tokens) ==
  { cache[h].tickId : h \in Range(routeHops(tokens)) \cap DOMAIN cache }

HopsFresh(tokens) ==
  \A h \in Range(routeHops(tokens)) : h \in DOMAIN cache /\ cache[h].ttl >= now

\* C13: getConsistentPrices returns no prices whenever the cache entries of
\* the hops of the tokens carry more than one tick id, also when every hop
\* has an unexpired entry; when it returns prices, every hop has an
\* unexpired entry, the entries share one tick id and are the ones returned.
C13_MixedTicksGiveNoPrices ==
  lastCall.op = "getConsistentPrices"
    => /\ Cardinality(HopTicks(lastCall.tokens)) > 1 => ~lastCall.result.ok
       /\ lastCall.result.ok
            => /\ HopsFresh(lastCall.tokens)
               /\ Cardinality(HopTicks(lastCall.tokens)) <= 1
               /\ lastCall.result.results =
                    [i \in 1..Len(routeHops(lastCall.tokens)) |->
                       cache[routeHops(lastCall.tokens)[i]]]

\* Two tokens whose three pools all have unexpired entries, under two tick
\* ids: the read returned no prices.
C13_Witness ==
  /\ lastCall.op = "getConsistentPrices"
  /\ Len(lastCall.tokens) = 2
  /\ HopsFresh(lastCall.tokens)
  /\ Cardinality(HopTicks(lastCall.tokens)) = 2
  /\ ~lastCall.result.ok

\* ---------------------------------------------------- tick per cycle
\* The pools of an answered batch whose entries in cache c carry tick id id.
WrittenUnder(call, c, id) ==
  { k \in Range(call.batch.pools) : k \in DOMAIN c /\ c[k].tickId = id }

\* C14: the cache entries written for the results of one scheduling cycle
\* carry one tick id: when two batches dispatched by the same cycle are
\* answered one after the other, the entries the second answer writes carry
\* the tick id of the entries the first answer wrote.
C14_OneTickPerCycle ==
  [][ (/\ lastCall.op = "batch" /\ lastCall.outcome = "results"
       /\ lastCall'.op = "batch" /\ lastCall'.outcome = "results"
       /\ lastCall'.batch.sentAt = lastCall.batch.sentAt)
      => \A k1 \in WrittenUnder(lastCall, cache, tickCounter) :
           \A k2 \in WrittenUnder(lastCall', cache', tickCounter') :
             cache'[k2].tickId = cache'[k1].tickId ]_vars

\* ---------------------------------------------------- last block wins
\* C15: the block number stored in the cache entry of a pool never
\* decreases, in whatever order the batches in flight are answered: a result
\* of a lower block than the stored one does not replace the entry.
C15_BlockNeverDecreases ==
  [][ \A k \in DOMAIN cache :
        k \in DOMAIN cache' /\ cache'[k].blockNumber >= cache[k].blockNumber ]_vars

\* ------------------------------------------------ tier recomputation
\* The pools of an answered batch whose price was recomputed against an
\* earlier price.
RecomputedOf(call, alive) ==
  { k \in Range(call.batch.pools) :
      /\ call.results[k].success
      /\ call.results[k].blockNumber # alive[k].lastBlockSeen
      /\ alive[k].lastPrice > 0 }

\* Whether price differs from lastPrice by more than num/den of lastPrice.
ChangeAbove(price, lastPrice, num, den) ==
  (IF price >= lastPrice THEN price - lastPrice ELSE lastPrice - price) * den
    > num * lastPrice

\* C16: when a result recomputes the price of a pool, the pool's tier and
\* next refresh follow the change against the previous price: more than 5 %
\* gives high and now + 5 s, otherwise more than 0.1 % gives normal and
\* now + 10 s, otherwise low and now + 30 s.
C16_TierFollowsPriceChange ==
  [][ (lastCall'.op = "batch" /\ lastCall'.outcome = "results")
      => \A k \in RecomputedOf(lastCall', aliveSet) :
           LET price == cache'[k].price
               lastPrice == aliveSet[k].lastPrice
           IN IF ChangeAbove(price, lastPrice, 5, 100)
              THEN /\ aliveSet'[k].tier = "high"
                   /\ aliveSet'[k].nextRefresh = now + 5000
              ELSE IF ChangeAbove(price, lastPrice, 1, 1000)
              THEN /\ aliveSet'[k].tier = "normal"
                   /\ aliveSet'[k].nextRefresh = now + 10000
              ELSE /\ aliveSet'[k].tier = "low"
                   /\ aliveSet'[k].nextRefresh = now + 30000 ]_vars

\* The pool whose price went from 10000 to 10002, a change of 0.02 %, has
\* been answered: it is at tier low and due 30 s from now.
C16_Witness ==
  /\ lastCall.op = "batch"
  /\ lastCall.outcome = "results"
  /\ \E k \in Range(lastCall.batch.pools) :
       /\ lastCall.results[k].success
       /\ k \in DOMAIN cache
       /\ cache[k].price = 10002
       /\ cache[k].timestamp = now
       /\ aliveSet[k].lastPrice = 10002
       /\ aliveSet[k].tier = "low"
       /\ aliveSet[k].nextRefresh = now + 30000

\* ---------------------------------------------------- stablecoin price
\* C17: for a token that is a USD stablecoin of the chain asked for,
\* computeSpotPrice returns 1.0 and has read neither the registry nor the
\* pool states, whatever they hold.
C17_StablecoinIsOne ==
  (/\ lastCall.op = "computeSpotPrice"
   /\ lastCall.chainId \in DOMAIN USD_STABLECOINS
   /\ toLowerCase(lastCall.tokenAddress) \in USD_STABLECOINS[lastCall.chainId])
    => /\ lastCall.outcome.result = UsdPrice(<<>>)
       /\ lastCall.outcome.reads = 0
       /\ lastCall.outcome.calls = 1

\* The stablecoin of chain 137, written in upper case, has been priced
\* under a registry with routes and a cache with pool states.
C17_Witness ==
  /\ lastCall.op = "computeSpotPrice"
  /\ lastCall.tokenAddress = "USDC_POL"
  /\ lastCall.chainId = 137
  /\ lastCall.outcome.result = UsdPrice(<<>>)
  /\ pricingRoutes[137]["weth"] # <<>>
  /\ poolStates # <<>>

\* ------------------------------------------------------ hop selection
\* The routes the registry has for the token of a computeSpotPrice call.
CallRoutes(call) ==
  routesOf(pricingRoutes, call.chainId, toLowerCase(call.tokenAddress))

\* Hop i of the routes has its pool's state in the cache.
HopCached(routes, i) == routes[i].pool \in DOMAIN poolStates

\* The base of hop i of the routes is a stablecoin of the chain.
HopStable(routes, i, chainId) ==
  /\ chainId \in DOMAIN USD_STABLECOINS
  /\ toLowerCase(routes[i].base) \in USD_STABLECOINS[chainId]

NotStablecoin(call) ==
  ~(/\ call.chainId \in DOMAIN USD_STABLECOINS
    /\ toLowerCase(call.tokenAddress) \in USD_STABLECOINS[call.chainId])

\* C19: of the hops of a token's route, computeSpotPrice prices off the
\* first hop with a stablecoin base and a cached pool when there is one,
\* and otherwise off the first hop, in route order, with a cached pool.
C19_HopSelection ==
  (lastCall.op = "computeSpotPrice" /\ NotStablecoin(lastCall))
    => LET routes == CallRoutes(lastCall)
           hop == lastCall.outcome.hop
           chainId == lastCall.chainId
       IN /\ (\E i \in 1..Len(routes) :
                HopCached(routes, i) /\ HopStable(routes, i, chainId))
               => /\ hop \in 1..Len(routes)
                  /\ HopCached(routes, hop) /\ HopStable(routes, hop, chainId)
                  /\ \A j \in 1..(hop - 1) :
                       ~(HopCached(routes, j) /\ HopStable(routes, j, chainId))
                  /\ lastCall.outcome.result.kind = "price"
                  /\ lastCall.outcome.result.factors[1].pool = routes[hop].pool
          /\ (/\ \E i \in 1..Len(routes) : HopCached(routes, i)
              /\ ~\E i \in 1..Len(routes) :
                    HopCached(routes, i) /\ HopStable(routes, i, chainId))
               => /\ hop \in 1..Len(routes)
                  /\ HopCached(routes, hop)
                  /\ \A j \in 1..(hop - 1) : ~HopCached(routes, j)
                  /\ lastCall.outcome.result.kind = "price"
                       => lastCall.outcome.result.factors[1].pool
                            = routes[hop].pool

\* A token whose first hop has a cached pool and a base that is no
\* stablecoin, and whose second hop has a cached pool and a stablecoin
\* base, has been priced off the second hop.
C19_Witness ==
  /\ lastCall.op = "computeSpotPrice"
  /\ NotStablecoin(lastCall)
  /\ Len(CallRoutes(lastCall)) = 2
  /\ HopCached(CallRoutes(lastCall), 1)
  /\ ~HopStable(CallRoutes(lastCall), 1, lastCall.chainId)
  /\ HopCached(CallRoutes(lastCall), 2)
  /\ HopStable(CallRoutes(lastCall), 2, lastCall.chainId)
  /\ lastCall.outcome.hop = 2
  /\ lastCall.outcome.result.kind = "price"
  /\ lastCall.outcome.result.factors[1].pool = CallRoutes(lastCall)[2].pool

\* ------------------------------------------------------ absent prices
\* The hop the selection rule gives for the routes, 0 when no hop has a
\* cached pool.
RuleHop(routes, chainId) ==
  LET stable == { i \in 1..Len(routes) :
                    HopCached(routes, i) /\ HopStable(routes, i, chainId) }
      cached == { i \in 1..Len(routes) : HopCached(routes, i) }
  IN IF stable # {} THEN CHOOSE i \in stable : \A j \in stable : i <= j
     ELSE IF cached # {} THEN CHOOSE i \in cached : \A j \in cached : i <= j
     ELSE 0

\* The token has a USD price within n hops: it is a stablecoin, or its hop
\* has a base with a USD price within n - 1 hops.
RECURSIVE HasUsdPrice(_, _, _)
HasUsdPrice(token, chainId, n) ==
  LET routes == routesOf(pricingRoutes, chainId, toLowerCase(token))
      hop == RuleHop(routes, chainId)
  IN \/ /\ chainId \in DOMAIN USD_STABLECOINS
        /\ toLowerCase(token) \in USD_STABLECOINS[chainId]
     \/ /\ n > 0
        /\ hop # 0
        /\ HasUsdPrice(routes[hop].base, chainId, n - 1)

\* The base of the hop chosen for the call is no stablecoin and has no USD
\* price by any chain of hops.
BaseWithoutPrice(call) ==
  LET routes == CallRoutes(call)
      hop == RuleHop(routes, call.chainId)
  IN /\ hop # 0
     /\ ~HopStable(routes, hop, call.chainId)
     /\ ~HasUsdPrice(routes[hop].base, call.chainId, Cardinality(RoutedTokens) + 1)

\* The call is one of the three cases without a price.
NoPriceCase(call) ==
  /\ call.op = "computeSpotPrice"
  /\ NotStablecoin(call)
  /\ \/ Len(CallRoutes(call)) = 0
     \/ RuleHop(CallRoutes(call), call.chainId) = 0
     \/ BaseWithoutPrice(call)

\* C18: computeSpotPrice returns null when the token has no route, when no
\* hop of its route has a cached pool state, and when the base of the
\* chosen hop is no stablecoin and has no USD price itself.
C18_AbsentIsNull ==
  NoPriceCase(lastCall) => lastCall.outcome.result = Null

\* In the three cases no price is returned, whether the call returns null
\* or does not return.
C18_NoPartialPrice ==
  NoPriceCase(lastCall) => lastCall.outcome.result.kind # "price"

\* On a registry whose routes do not lead back to a token on the way, the
\* three cases return null.
C18_NullUnlessCycle ==
  (NoPriceCase(lastCall) /\ lastCall.outcome.result.kind # "recursing")
    => lastCall.outcome.result = Null

\* ------------------------------------------------- bounded resolution
\* C20: computeSpotPrice returns, after at most one recursive call for the
\* base of the chosen hop, for every registry and cache content.
C20_AtMostOneRecursiveHop ==
  lastCall.op = "computeSpotPrice"
    => /\ lastCall.outcome.result.kind # "recursing"
       /\ lastCall.outcome.calls <= 2

\* ------------------------------------------------------ expiry sweep
\* C21: after a run of the state-cache cleanup no entry whose expiry has
\* passed is left in the cache, and the entries whose expiry has not passed
\* are the ones the cache held before.
C21_SweepRemovesExpired ==
  lastCall.op = "cleanupStateCache"
    => /\ \A k \in DOMAIN cache : cache[k].ttl >= now
       /\ \A k \in DOMAIN lastCall.before :
            lastCall.before[k].ttl >= now
              => k \in DOMAIN cache /\ cache[k] = lastCall.before[k]

\* A run of the cleanup leaves the unexpired entries as they were.
C21_SweepKeepsFresh ==
  lastCall.op = "cleanupStateCache"
    => \A k \in DOMAIN lastCall.before :
         lastCall.before[k].ttl >= now
           => k \in DOMAIN cache /\ cache[k] = lastCall.before[k]

C23_SweepRemovesOnlyAtZero ==
  [][ lastCall'.op = "cleanup"
      => \A k \in lastCall'.removed :
           k \notin DOMAIN aliveSet \/ aliveSet[k].refCount = 0 ]_vars

\* A run of cleanupPools has removed a pool that was registered, released,
\* and stayed in the alive set through an earlier run.
C23_Witness ==
  /\ lastCall.op = "cleanup"
  /\ lastCall.removed # {}
  /\ \A k \in lastCall.removed : k \notin DOMAIN aliveSet
  /\ now >= 2 * POOL_CLEANUP_INTERVAL_MS

\* -------------------------------------------------- registration frame
\* C24: a registration creates the PoolRef of a pool not yet tracked with
\* tier high, ref-count 1, last block 0, last price 0 and next refresh
\* now + 5 s, and changes nothing but the ref-count of a pool already
\* tracked.
C24_RegistrationFrame ==
  [][ lastCall'.op = "overview"
      => /\ DOMAIN aliveSet \subseteq DOMAIN aliveSet'
         /\ \A k \in DOMAIN aliveSet' :
              IF k \in DOMAIN aliveSet
              THEN /\ aliveSet'[k].tier = aliveSet[k].tier
                   /\ aliveSet'[k].nextRefresh = aliveSet[k].nextRefresh
                   /\ aliveSet'[k].lastBlockSeen = aliveSet[k].lastBlockSeen
                   /\ aliveSet'[k].lastPrice = aliveSet[k].lastPrice
                   /\ aliveSet'[k].refCount > aliveSet[k].refCount
              ELSE aliveSet'[k] = [tier |-> "high", nextRefresh |-> now + 5000,
                                   lastBlockSeen |-> 0, lastPrice |-> 0,
                                   refCount |-> 1] ]_vars

\* Interest has been registered again in a pool that a refresh had moved to
\* tier low: the pool has ref-count 2 and is still at tier low, with the
\* block and price of the refresh.
C24_Witness ==
  /\ lastCall.op = "overview"
  /\ \E k \in DOMAIN aliveSet :
       /\ aliveSet[k].refCount = 2
       /\ aliveSet[k].tier = "low"
       /\ aliveSet[k].lastBlockSeen > 0
       /\ aliveSet[k].lastPrice > 0
       /\ aliveSet[k].nextRefresh > now + 5000

\* ------------------------------------------------ rescheduling by results
\* The pools of the batch just processed that are still tracked.
ProcessedPools ==
  IF lastCall.op = "batch"
  THEN Range(lastCall.batch.pools) \cap DOMAIN aliveSet
  ELSE {}

\* C25: once the result of a pool has been processed (changed block,
\* unchanged block or failure), the pool's next refresh is strictly later
\* than the time of processing.
C25_ProcessedPoolLeavesDueSet ==
  \A k \in ProcessedPools : aliveSet[k].nextRefresh > now

\* The results that do reschedule: a failed pool, a pool of a failed batch
\* and a pool whose block changed are due strictly later than now.
C25_FailedOrChangedLeavesDueSet ==
  \A k \in ProcessedPools :
    (lastCall.outcome = "throw" \/ k \in lastCall.retried
       \/ (lastCall.results[k].blockNumber = aliveSet[k].lastBlockSeen
             /\ cache[k].timestamp = now))
      => aliveSet[k].nextRefresh > now

\* ------------------------------------------------ batching by due set
\* Two tokens, each priced on one pool of chain 137.
OrderTokens ==
  { [address |-> 40 + pool, chainId |-> 137,
     pricingPools |-> <<Route(pool, "USDC")>>] : pool \in {1, 2} }

\* Interest is registered in a token whose pool is not tracked.
RegisterOrder ==
  \E token \in OrderTokens :
    /\ ~Tracked(poolKeyOf(137, token.pricingPools[1].pool))
    /\ GetMarketOverview(137, <<token>>)
    /\ lastCall' = [op |-> "overview"]
    /\ UNCHANGED hist

\* The interest in a tracked pool ends.
ReleaseOrder ==
  \E k \in DOMAIN aliveSet :
    /\ aliveSet[k].refCount > 0
    /\ DecrementRefCount(k)
    /\ lastCall' = [op |-> "decrement", key |-> k]
    /\ UNCHANGED hist

\* Time passes once the timers that are due have fired.
TickOrder ==
  /\ now < nextLoop
  /\ now < nextPoolCleanup
  /\ now + TickMs <= GCHorizonMs
  /\ now' = now + TickMs
  /\ lastCall' = NoCall
  /\ UNCHANGED <<engineVars, aliveSet, aliveOrder, gcVars, batchVars, refreshVars, hist>>

\* Registrations, releases, sweeps and cycles while the answers of the
\* providers are outstanding.
NextOrder ==
  RegisterOrder \/ ReleaseOrder \/ CleanupPools \/ ExecutionLoop \/ TickOrder

SpecOrder == InitRefresh /\ [][NextOrder]_vars

\* C26: a cycle that selects a set of due pools an earlier cycle selected
\* makes the batches of that cycle, pool for pool, whatever the order in
\* which the pools were registered.
C26_SameDueSetSameBatches ==
  (lastCall.op = "loop" /\ Len(scheduledPools) >= 2)
    => batchKeys(batches) = cycleLog[dueKeys(scheduledPools)]

\* The batches of a cycle hold the due pools in the order of the tracker.
C26_BatchesFollowTracker ==
  lastCall.op = "loop"
    => \A b \in 1..Len(batches) : \A i, j \in 1..Len(batches[b]) :
         i < j => \E m, n \in 1..Len(aliveOrder) :
                    /\ m < n
                    /\ aliveOrder[m] = batches[b][i].address
                    /\ aliveOrder[n] = batches[b][j].address

\* -------------------------------------------- market data of the service
\* The market-data cache keeps an entry for 5 minutes.
MARKET_DATA_CACHE_TTL_MS == 300000

\* The step of time and the horizon of the market-data runs.
MarketTickMs == 300000

MarketHorizonMs == 300000

MaxOverview == 2

\* storageService.getTokensByNetwork(chainId): the addresses of the tokens
\* the storage holds for the chain.
storageTokens(chainId) ==
  IF chainId = 137 THEN {"usdc_pol", "weth", "wbtc"} ELSE {"usdc_eth"}

\* The registry of chain 137: weth is priced on p1 against the stablecoin,
\* wbtc on p2 against weth.
MarketRegistry ==
  [token \in RoutedTokens |->
     IF token = "weth" THEN <<Route("p1", "usdc_pol")>>
     ELSE <<Route("p2", "weth")>>]

\* The addresses a caller asks for: tokens of the storage, one of them in
\* another case, and a token the storage does not hold.
MarketAddresses == {"usdc_pol", "WETH", "wbtc", "dai"}

\* A number as the engine's arithmetic yields it from pools whose
\* sqrtPriceX96 / 2^96 is 0 or 1: 0, or a power of ten.
Number(m, e) == [kind |-> "number", m |-> m, e |-> e]

NullNumber == [kind |-> "null", m |-> 0, e |-> 0]

\* priceInBaseToken: rawPrice = sqrtPrice^2 * 10^adjust, taken as it is for
\* token0 and inverted (0 when rawPrice is not above 0) for token1.
hopNumber(factor, states) ==
  IF states[factor.pool].sqrtPrice = 0 THEN Number(0, 0)
  ELSE Number(1, IF factor.side = "token0" THEN factor.adjust ELSE -factor.adjust)

\* The product of the hop prices of a result of computeSpotPrice.
RECURSIVE productOf(_, _)
productOf(factors, states) ==
  IF factors = <<>> THEN Number(1, 0)
  ELSE LET h == hopNumber(Head(factors), states)
           rest == productOf(Tail(factors), states)
       IN IF h.m = 0 \/ rest.m = 0 THEN Number(0, 0)
          ELSE Number(1, h.e + rest.e)

\* The value computeSpotPrice resolves with.
priceNumber(result, states) ==
  IF result.kind = "price" THEN productOf(result.factors, states)
  ELSE NullNumber

\* `${tokenAddress}-${chainId}`
cacheKeyOf(tokenAddress, chainId) == <<tokenAddress, chainId>>

\* The marketData object getTokenMarketData builds from a price.
marketDataOf(tokenAddress, chainId, price, t) ==
  LET hasValidPrice == price.kind # "null" /\ price.m > 0
  IN [ address |-> tokenAddress,
       chainId |-> chainId,
       price |-> IF hasValidPrice THEN price ELSE Number(0, 0),
       dataSource |-> IF hasValidPrice THEN "multicall" ELSE "insufficient-data",
       timestamp |-> t,
       cachedUntil |-> t + (IF hasValidPrice THEN MARKET_DATA_CACHE_TTL_MS ELSE 0) ]

\* The object the catch of getMarketOverview returns for a failed token.
failedData(tokenAddress, chainId, t) ==
  [ address |-> tokenAddress,
    chainId |-> chainId,
    price |-> Number(0, 0),
    dataSource |-> "insufficient-data",
    timestamp |-> t,
    cachedUntil |-> t ]

\* Every result is stored, its price valid or not.
MutCacheAlways(c, key, data, t) ==
  (key :> [data |-> data, expireAt |-> t + MARKET_DATA_CACHE_TTL_MS]) @@ c

\* if (hasValidPrice) this.setCacheEntry(cacheKey, marketData)
storeMarketData(c, key, data, t) ==
  IF data.dataSource = "multicall"
  THEN (key :> [data |-> data, expireAt |-> t + MARKET_DATA_CACHE_TTL_MS]) @@ c
  ELSE c

\* getTokenMarketData against the cache c: the data it resolves with, or a
\* throw when the storage fails or does not hold the token; `fresh` tells
\* that the data was built by this call.
getTokenMarketData(tokenAddress, chainId, forceRefresh, storageUp, c, registry, states, t) ==
  LET cacheKey == cacheKeyOf(tokenAddress, chainId)
      hit == /\ ~forceRefresh
             /\ cacheKey \in DOMAIN c
             /\ c[cacheKey].expireAt > t
      found == toLowerCase(tokenAddress) \in storageTokens(chainId)
      price == priceNumber(
                 computeSpotPrice(tokenAddress, chainId, registry, states,
                                  MaxDepth).result, states)
  IN IF hit THEN [outcome |-> "data", data |-> c[cacheKey].data, fresh |-> FALSE]
     ELSE IF ~storageUp \/ ~found
     THEN [outcome |-> "throw",
           data |-> failedData(tokenAddress, chainId, t), fresh |-> FALSE]
     ELSE [outcome |-> "data",
           data |-> marketDataOf(tokenAddress, chainId, price, t),
           fresh |-> TRUE]

\* The cache after the calls for the tokens from index i on have stored
\* their data; every call has checked the cache c0 before any of them
\* stored.
RECURSIVE storeAll(_, _, _, _, _, _, _, _)
storeAll(c, c0, tokens, up, chainId, registry, states, t) ==
  IF tokens = <<>> THEN c
  ELSE LET r == getTokenMarketData(Head(tokens).address, chainId, FALSE,
                                   Head(up), c0, registry, states, t)
       IN storeAll(IF r.fresh
                   THEN storeMarketData(c, cacheKeyOf(Head(tokens).address, chainId),
                                        r.data, t)
                   ELSE c,
                   c0, Tail(tokens), Tail(up), chainId, registry, states, t)

\* A rejected call rejects the overview.
MutNoCatch(tokens, up, chainId, c, registry, states, t) ==
  IF \E i \in 1..Len(tokens) :
       getTokenMarketData(tokens[i].address, chainId, FALSE, up[i], c,
                          registry, states, t).outcome = "throw"
  THEN <<>>
  ELSE [i \in 1..Len(tokens) |->
          getTokenMarketData(tokens[i].address, chainId, FALSE, up[i], c,
                             registry, states, t).data]

\* marketDataResults: tokens.map(token => getTokenMarketData(...).catch(...))
\* awaited by Promise.all.
marketDataResults(tokens, up, chainId, c, registry, states, t) ==
  [i \in 1..Len(tokens) |->
     LET r == getTokenMarketData(tokens[i].address, chainId, FALSE, up[i], c,
                                 registry, states, t)
     IN IF r.outcome = "throw"
        THEN failedData(tokens[i].address, chainId, t)
        ELSE r.data]

\* A token as the cold path hands it over, its pricing routes attached.
MarketToken(address) ==
  [ address |-> address, chainId |-> 137,
    pricingPools |-> routesOf((137 :> MarketRegistry), 137, toLowerCase(address)) ]

\* The overviews asked for: a token priced over two hops and one the storage
\* does not hold.
OverviewAddresses == {"wbtc", "dai"}

MarketTokenLists ==
  UNION { [1..n -> { MarketToken(a) : a \in OverviewAddresses }] : n \in 0..MaxOverview }

\* The state of a pool in cache, with sqrtPriceX96 / 2^96.
MarketStateOf(pool, sqrtPrice) ==
  [ token0 |-> PoolStateOf(pool).token0, token1 |-> PoolStateOf(pool).token1,
    sqrtPrice |-> sqrtPrice ]

InitMarket ==
  /\ InitServices
  /\ maxWeight = MAX_CALL_WEIGHT_PER_BATCH
  /\ scheduledPools = <<>>
  /\ rpcProviders = initializeProviders(EnvKeys)
  /\ roundRobinCounters = initializeCounters
  /\ rpcLog = [c \in RpcChains |-> <<>>]
  /\ dispatchLog = <<>>
  /\ pricingRoutes = (1 :> <<>>) @@ (137 :> MarketRegistry)
  /\ \E pools \in SUBSET PricingPools : \E sq \in [pools -> {0, 1}] :
       poolStates = [pool \in pools |-> MarketStateOf(pool, sq[pool])]

\* getTokenMarketData(tokenAddress, chainId, options)
GetTokenMarketData(tokenAddress, chainId, forceRefresh, storageUp) ==
  LET r == getTokenMarketData(tokenAddress, chainId, forceRefresh, storageUp,
                              marketCache, pricingRoutes, poolStates, now)
  IN /\ marketCache' = IF r.fresh
                       THEN storeMarketData(marketCache,
                                            cacheKeyOf(tokenAddress, chainId),
                                            r.data, now)
                       ELSE marketCache
     /\ lastCall' = [op |-> "getTokenMarketData",
                     key |-> cacheKeyOf(tokenAddress, chainId),
                     outcome |-> r.outcome, data |-> r.data, fresh |-> r.fresh]
     /\ UNCHANGED <<rpcVars, priceVars, cycleLog, serviceVars, now, aliveSet, aliveOrder,
                    gcVars, batchVars, refreshVars, hist>>

\* getMarketOverview(chainId, tokensWithPools): the interest of the tokens is
\* registered, then the market data of every token is fetched; up[i] tells
\* whether the storage answers the call for token i.
MarketOverview(chainId, tokens, up) ==
  LET dedup == deduplicateTokensByPool(tokens)
      alive2 == handleTokenInterest(aliveSet, dedup, chainId, now)
  IN /\ \A k \in DOMAIN alive2 : alive2[k].refCount <= MaxOverview
     /\ aliveSet' = alive2
     /\ aliveOrder' = insertionOrder(aliveOrder, routeKeys(dedup, chainId))
     /\ marketCache' = storeAll(marketCache, marketCache, tokens, up, chainId,
                                pricingRoutes, poolStates, now)
     /\ lastCall' = [op |-> "marketOverview", chainId |-> chainId,
                     tokens |-> tokens, up |-> up,
                     result |-> marketDataResults(tokens, up, chainId, marketCache,
                                                  pricingRoutes, poolStates, now)]
     /\ UNCHANGED <<rpcVars, priceVars, cycleLog, serviceVars, now, gcVars, batchVars,
                    refreshVars, hist>>

\* clearCache()
ClearCache ==
  /\ marketCache # <<>>
  /\ marketCache' = <<>>
  /\ lastCall' = [op |-> "clearCache"]
  /\ UNCHANGED <<rpcVars, priceVars, cycleLog, serviceVars, now, aliveSet, aliveOrder,
                 gcVars, batchVars, refreshVars, hist>>

TickMarket ==
  /\ now + MarketTickMs <= MarketHorizonMs
  /\ now' = now + MarketTickMs
  /\ lastCall' = NoCall
  /\ UNCHANGED <<engineVars, aliveSet, aliveOrder, gcVars, batchVars, refreshVars, hist>>

FetchOne ==
  \E tokenAddress \in MarketAddresses,
     forceRefresh \in BOOLEAN, storageUp \in BOOLEAN :
    GetTokenMarketData(tokenAddress, 137, forceRefresh, storageUp)

FetchOverview ==
  \E tokens \in MarketTokenLists : \E up \in [1..Len(tokens) -> BOOLEAN] :
    MarketOverview(137, tokens, up)

\* Single fetches, with the cache cleared now and then.
NextMarket == FetchOne \/ ClearCache \/ TickMarket

SpecMarket == InitMarket /\ [][NextMarket]_vars

\* Overviews of up to MaxOverview tokens.
NextOverview == FetchOverview \/ TickMarket

SpecOverview == InitMarket /\ [][NextOverview]_vars

\* C27: every entry of the market-data cache holds a price above 0 and the
\* data source 'multicall'; no 'insufficient-data' result is stored.
C27_CacheHoldsValidPrices ==
  \A key \in DOMAIN marketCache :
    /\ marketCache[key].data.price.m > 0
    /\ marketCache[key].data.dataSource = "multicall"

\* A call has just resolved with 'insufficient-data' for a token the storage
\* holds: its key has no entry, while the cache holds another token's price.
C27_Witness ==
  /\ lastCall.op = "getTokenMarketData"
  /\ lastCall.fresh
  /\ lastCall.data.dataSource = "insufficient-data"
  /\ lastCall.key \notin DOMAIN marketCache
  /\ marketCache # <<>>

\* The call for token i of the overview in lastCall' is rejected: the cache
\* the overview met has no live entry for it, and the storage fails or does
\* not hold the token.
FailedToken(i) ==
  LET token == lastCall'.tokens[i]
      key == cacheKeyOf(token.address, lastCall'.chainId)
  IN /\ ~(key \in DOMAIN marketCache /\ marketCache[key].expireAt > now)
     /\ \/ ~lastCall'.up[i]
        \/ toLowerCase(token.address) \notin storageTokens(lastCall'.chainId)

\* C28: an overview resolves with one entry per input token in the order of
\* the input; a token whose call failed is reported with price 0 and
\* 'insufficient-data', and every other token with the data its own call
\* gives.
C28_OverviewIsolatesFailures ==
  [][ lastCall'.op = "marketOverview"
      => LET tokens == lastCall'.tokens
             result == lastCall'.result
         IN /\ Len(result) = Len(tokens)
            /\ \A i \in 1..Len(tokens) :
                 /\ result[i].address = tokens[i].address
                 /\ IF FailedToken(i)
                    THEN /\ result[i].price = Number(0, 0)
                         /\ result[i].dataSource = "insufficient-data"
                    ELSE result[i] =
                           getTokenMarketData(tokens[i].address, lastCall'.chainId,
                                              FALSE, lastCall'.up[i], marketCache,
                                              pricingRoutes, poolStates, now).data ]_vars

\* An overview of two tokens has resolved: the call for the first failed on
\* the storage, the second is priced from its pool.
C28_Witness ==
  /\ lastCall.op = "marketOverview"
  /\ Len(lastCall.tokens) = 2
  /\ ~lastCall.up[1]
  /\ lastCall.result[1].dataSource = "insufficient-data"
  /\ lastCall.up[2]
  /\ lastCall.result[2].dataSource = "multicall"
  /\ lastCall.result[2].price.m > 0

\* ------------------------------------------------------------ CacheLayer
\* The reads of the storage that may be awaited at once for a chain.
MaxLoads == 2

\* The reads of the storage counted for a chain.
MaxReads == 3

\* The invalidations of the token cache of a chain made in a run.
MaxInvalidations == 2

\* s without its i-th element.
removeAt(s, i) == SubSeq(s, 1, i - 1) \o SubSeq(s, i + 1, Len(s))

\* The synchronous part of getTokensByNetworkCached(chainId): a cached list
\* is returned; on a miss the storage read begins and the call awaits it.
GetTokensByNetworkCached(chainId) ==
  LET cached == chainId \in DOMAIN tokenCache
  IN /\ ~cached => pendingLoads[chainId] < MaxLoads
     /\ ~cached => storageReads[chainId] < MaxReads
     /\ pendingLoads' = IF cached THEN pendingLoads
                        ELSE [pendingLoads EXCEPT ![chainId] = @ + 1]
     /\ storageReads' = IF cached THEN storageReads
                        ELSE [storageReads EXCEPT ![chainId] = @ + 1]
     /\ loadsBegun' = IF cached THEN loadsBegun
                      ELSE [loadsBegun EXCEPT
                              ![chainId] = Append(@, invalidations[chainId])]
     /\ lastCall' = [op |-> "getTokensByNetworkCached", chainId |-> chainId,
                     from |-> IF cached THEN "memory" ELSE "storage",
                     loadedAt |-> loadedAt[chainId],
                     invalidations |-> invalidations[chainId]]
     /\ UNCHANGED <<rpcVars, priceVars, cycleLog, marketCache, tokenCache,
                    invalidations, loadedAt,
                    batcherVars, appVars, now, aliveSet, aliveOrder, gcVars, batchVars,
                    refreshVars, hist>>

\* storageService.getTokensByNetwork resolves for the i-th waiting call,
\* which stores the list and returns it, or rejects, which rejects the call.
\* The storage read the list at some moment of the wait: after readAt
\* invalidations.
LoadAnswers(chainId, i, readAt, ok) ==
  /\ i \in 1..Len(loadsBegun[chainId])
  /\ readAt \in loadsBegun[chainId][i]..invalidations[chainId]
  /\ pendingLoads' = [pendingLoads EXCEPT ![chainId] = @ - 1]
  /\ loadsBegun' = [loadsBegun EXCEPT ![chainId] = removeAt(@, i)]
  /\ tokenCache' = IF ok
                   THEN (chainId :> [data |-> storageTokens(chainId),
                                     timestamp |-> now]) @@ tokenCache
                   ELSE tokenCache
  /\ loadedAt' = IF ok THEN [loadedAt EXCEPT ![chainId] = readAt] ELSE loadedAt
  /\ lastCall' = [op |-> "storageAnswers", chainId |-> chainId, ok |-> ok,
                  begun |-> loadsBegun[chainId][i], readAt |-> readAt,
                  invalidations |-> invalidations[chainId]]
  /\ UNCHANGED <<rpcVars, priceVars, cycleLog, marketCache, storageReads,
                 invalidations,
                 batcherVars, appVars, now, aliveSet, aliveOrder, gcVars, batchVars,
                 refreshVars, hist>>

StorageAnswers(chainId, ok) ==
  /\ pendingLoads[chainId] > 0
  /\ \E i \in 1..Len(loadsBegun[chainId]) :
       \E readAt \in 0..MaxInvalidations : LoadAnswers(chainId, i, readAt, ok)

\* invalidateTokenCache(chainId)
InvalidateTokenCache(chainId) ==
  /\ invalidations[chainId] < MaxInvalidations
  /\ tokenCache' = [c \in DOMAIN tokenCache \ {chainId} |-> tokenCache[c]]
  /\ storageReads' = [storageReads EXCEPT ![chainId] = 0]
  /\ invalidations' = [invalidations EXCEPT ![chainId] = @ + 1]
  /\ lastCall' = [op |-> "invalidateTokenCache", chainId |-> chainId]
  /\ UNCHANGED <<rpcVars, priceVars, cycleLog, marketCache, pendingLoads,
                 loadsBegun, loadedAt,
                 batcherVars, appVars, now, aliveSet, aliveOrder, gcVars, batchVars,
                 refreshVars, hist>>

\* clearAllCaches()
ClearAllCaches ==
  /\ \A c \in Chains : invalidations[c] < MaxInvalidations
  /\ tokenCache' = <<>>
  /\ storageReads' = [c \in Chains |-> 0]
  /\ invalidations' = [c \in Chains |-> invalidations[c] + 1]
  /\ lastCall' = [op |-> "clearAllCaches"]
  /\ UNCHANGED <<rpcVars, priceVars, cycleLog, marketCache, pendingLoads,
                 loadsBegun, loadedAt,
                 batcherVars, appVars, now, aliveSet, aliveOrder, gcVars, batchVars,
                 refreshVars, hist>>

TokensCached == \E chainId \in Chains : GetTokensByNetworkCached(chainId)

StorageAnswer == \E chainId \in Chains, ok \in BOOLEAN : StorageAnswers(chainId, ok)

Invalidate == \E chainId \in Chains : InvalidateTokenCache(chainId)

NextCacheLayer ==
  TokensCached \/ StorageAnswer \/ Invalidate \/ ClearAllCaches \/ TickInterest

SpecCacheLayer == Init /\ [][NextCacheLayer]_vars

\* C29: whatever the number of calls of getTokensByNetworkCached for a
\* chain, overlapping calls on a cold cache included, the storage is read
\* once for the chain between two invalidations.
C29_OneStorageReadPerChain ==
  \A chainId \in Chains : storageReads[chainId] <= 1

\* A call that finds the list of the chain in the cache is served from
\* memory and reads no storage.
C29_CachedCallReadsNoStorage ==
  [][ (lastCall'.op = "getTokensByNetworkCached"
         /\ lastCall'.chainId \in DOMAIN tokenCache)
      => /\ lastCall'.from = "memory"
         /\ storageReads' = storageReads ]_vars

\* C37: a call served from memory returns a list the storage read after
\* the last invalidation of the chain.
C37_NoStaleReadAfterInvalidation ==
  (lastCall.op = "getTokensByNetworkCached" /\ lastCall.from = "memory")
    => lastCall.loadedAt = lastCall.invalidations

\* A load that began after the last invalidation of its chain stores a list
\* read after it, and an invalidation leaves no list of the chain cached.
C37_LoadBegunAfterIsFresh ==
  /\ [][ (lastCall'.op = "storageAnswers" /\ lastCall'.ok
            /\ lastCall'.begun = lastCall'.invalidations)
         => loadedAt'[lastCall'.chainId] = invalidations'[lastCall'.chainId] ]_vars
  /\ [][ lastCall'.op = "invalidateTokenCache"
         => lastCall'.chainId \notin DOMAIN tokenCache' ]_vars

\* A load begun before an invalidation resolved after it and stored the
\* list it had read before.
C37_LoadOutlivesInvalidation ==
  /\ lastCall.op = "storageAnswers"
  /\ lastCall.ok
  /\ lastCall.begun < lastCall.invalidations
  /\ lastCall.readAt < lastCall.invalidations
  /\ lastCall.chainId \in DOMAIN tokenCache

\* -------------------------------------------------------- RequestBatcher
\* The quote requests made in a run.
MaxRequests == 4

\* The tokens and amounts quotes are asked for.
QuoteTokens == {"weth", "wbtc"}

QuoteAmounts == {"1"}

\* The requests of the batches in the order they were passed on.
RECURSIVE flatten(_)
flatten(bs) == IF bs = <<>> THEN <<>> ELSE Head(bs) \o flatten(Tail(bs))

\* The queue is passed on and kept.
MutKeepQueue(q, fwd) == [queue |-> q, forwarded |-> Append(fwd, q)]

\* processQueue(): nothing on an empty queue; otherwise a copy of the queue
\* goes to controller.getQuotes and the queue starts anew.
processQueue(q, fwd) ==
  IF Len(q) = 0 THEN [queue |-> q, forwarded |-> fwd]
  ELSE [queue |-> <<>>, forwarded |-> Append(fwd, q)]

\* addQuoteRequest(tokenIn, tokenOut, amount): the request is pushed with
\* the resolver of the promise returned; resolvers are numbered as created.
AddQuoteRequest(tokenIn, tokenOut, amount) ==
  LET made == Len(flatten(forwarded)) + Len(queue)
  IN /\ made < MaxRequests
     /\ queue' = Append(queue, [tokenIn |-> tokenIn, tokenOut |-> tokenOut,
                                amount |-> amount, resolve |-> made + 1,
                                id |-> <<tokenIn, tokenOut, amount>>])
     /\ lastCall' = [op |-> "addQuoteRequest"]
     /\ UNCHANGED <<rpcVars, priceVars, cycleLog, marketCache, cacheLayerVars, appVars,
                    forwarded, now, aliveSet, aliveOrder, gcVars, batchVars,
                    refreshVars, hist>>

\* processQueue, fired by its interval timer.
ProcessQueue ==
  LET done == processQueue(queue, forwarded)
  IN /\ queue' = done.queue
     /\ forwarded' = done.forwarded
     /\ lastCall' = [op |-> "processQueue", requests |-> Len(queue)]
     /\ UNCHANGED <<rpcVars, priceVars, cycleLog, marketCache, cacheLayerVars, appVars,
                    now, aliveSet, aliveOrder, gcVars, batchVars, refreshVars,
                    hist>>

AddQuote ==
  \E tokenIn \in QuoteTokens, tokenOut \in QuoteTokens, amount \in QuoteAmounts :
    AddQuoteRequest(tokenIn, tokenOut, amount)

NextBatcher == AddQuote \/ ProcessQueue

SpecBatcher == Init /\ [][NextBatcher]_vars

\* The requests made so far, forwarded or waiting, in their order.
RequestsMade == flatten(forwarded) \o queue

DispatchIds == {<<"weth", "wbtc", "1">>, <<"wbtc", "weth", "1">>}

DispatchQuotes == {[price |-> 1, poolAddress |-> "p2"], [price |-> 1, poolAddress |-> "p1"]}

\* The resolvers made in a run of the dispatcher alone.
MaxResolvers == 4

\* The Map m without the key k.
mapDelete(m, k) == [x \in DOMAIN m \ {k} |-> m[x]]

\* The Map m with key k set to v.
mapSet(m, k, v) == [x \in DOMAIN m \cup {k} |-> IF x = k THEN v ELSE m[x]]

\* resolve(value), for each resolver of the list in turn.
RECURSIVE callResolvers(_, _, _)
callResolvers(res, resolvers, value) ==
  IF resolvers = <<>> THEN res
  ELSE LET r == Head(resolvers)
           got == IF r \in DOMAIN res THEN res[r] ELSE <<>>
       IN callResolvers(mapSet(res, r, Append(got, value)), Tail(resolvers), value)

\* The resolvers are called and kept.
MutKeepResolvers(pending, res, requestId, quote) ==
  IF requestId \in DOMAIN pending
  THEN [pending |-> pending,
        resolved |-> callResolvers(res, pending[requestId], quote)]
  ELSE [pending |-> pending, resolved |-> res]

\* register(requestId, resolve)
register(pending, requestId, resolve) ==
  LET had == IF requestId \in DOMAIN pending THEN pending[requestId] ELSE <<>>
  IN mapSet(pending, requestId, Append(had, resolve))

\* dispatch(requestId, quote)
dispatch(pending, res, requestId, quote) ==
  IF requestId \in DOMAIN pending
  THEN [pending |-> mapDelete(pending, requestId),
        resolved |-> callResolvers(res, pending[requestId], quote)]
  ELSE [pending |-> pending, resolved |-> res]

\* The resolvers registered so far, pending or called.
ResolversMade ==
  DOMAIN resolved \cup
    UNION { { pendingRequests[id][i] : i \in 1..Len(pendingRequests[id]) } :
            id \in DOMAIN pendingRequests }

\* register, with the resolver of a promise just made: resolvers are
\* numbered as they are made.
Register(requestId) ==
  LET resolve == Cardinality(ResolversMade) + 1
  IN /\ resolve <= MaxResolvers
     /\ pendingRequests' = register(pendingRequests, requestId, resolve)
     /\ lastCall' = [op |-> "register", id |-> requestId, resolve |-> resolve]
     /\ UNCHANGED <<resolved, quoteCache, lastUpdated, quoteCalls, backgroundVars, rpcVars,
                    priceVars, cycleLog, marketCache, cacheLayerVars,
                    batcherVars, now, aliveSet, aliveOrder, gcVars, batchVars,
                    refreshVars, hist>>

Dispatch(requestId, quote) ==
  LET done == dispatch(pendingRequests, resolved, requestId, quote)
  IN /\ pendingRequests' = done.pending
     /\ resolved' = done.resolved
     /\ lastCall' = [op |-> "dispatch", id |-> requestId, quote |-> quote]
     /\ UNCHANGED <<quoteCache, lastUpdated, quoteCalls, backgroundVars, rpcVars, priceVars,
                    cycleLog, marketCache, cacheLayerVars, batcherVars, now,
                    aliveSet, aliveOrder, gcVars, batchVars, refreshVars, hist>>

RegisterAny == \E id \in DispatchIds : Register(id)

DispatchAny == \E id \in DispatchIds, quote \in DispatchQuotes : Dispatch(id, quote)

NextDispatcher == RegisterAny \/ DispatchAny

SpecDispatcher == Init /\ [][NextDispatcher]_vars

\* The resolvers waiting under an id.
PendingOf(pending, id) ==
  IF id \in DOMAIN pending
  THEN { pending[id][i] : i \in 1..Len(pending[id]) } ELSE {}

\* The calls a resolver has had.
CallsOf(res, r) == IF r \in DOMAIN res THEN res[r] ELSE <<>>

\* C32: no resolver is ever called twice and no resolver called is still
\* pending; dispatch(id, quote) calls each resolver pending under id once,
\* with that quote, and forgets them; it calls no other resolver, leaves
\* the resolvers of other ids as they were, and changes nothing when none
\* is pending under id.
C32_ResolversCalledOnce ==
  /\ [](\A r \in DOMAIN resolved :
          /\ Len(resolved[r]) = 1
          /\ \A id \in DOMAIN pendingRequests : r \notin PendingOf(pendingRequests, id))
  /\ [][ lastCall'.op = "dispatch" =>
           LET id == lastCall'.id
           IN /\ \A r \in PendingOf(pendingRequests, id) :
                   CallsOf(resolved', r) = <<lastCall'.quote>>
              /\ id \notin DOMAIN pendingRequests'
              /\ \A r \in DOMAIN resolved' \ PendingOf(pendingRequests, id) :
                   r \in DOMAIN resolved /\ resolved'[r] = resolved[r]
              /\ \A other \in DispatchIds \ {id} :
                   PendingOf(pendingRequests', other) = PendingOf(pendingRequests, other)
              /\ (id \notin DOMAIN pendingRequests =>
                    pendingRequests' = pendingRequests /\ resolved' = resolved) ]_vars

\* A dispatch has just called the two resolvers of one id with its quote
\* while a resolver of the other id is still pending, and a resolver
\* called by an earlier dispatch with the other quote kept its value.
C32_Witness ==
  /\ lastCall.op = "dispatch"
  /\ \E r1, r2, r3 \in DOMAIN resolved :
       /\ r1 # r2
       /\ resolved[r1] = <<lastCall.quote>>
       /\ resolved[r2] = <<lastCall.quote>>
       /\ resolved[r3] # <<lastCall.quote>>
  /\ \E other \in DOMAIN pendingRequests : other # lastCall.id

\* ------------------------------------------------------ ControllerService
REFRESH_INTERVAL == 10000

CACHE_TTL == 10000

\* The clock of the quote services moves in steps of the two intervals.
QuoteTickMs == 10000

QuoteHorizonMs == 10000

\* The quote requests made in a run of the controller.
MaxQuotes == 3

\* tokens.json as loaded: the chain of each token that has metadata.
tokenMetadata == ("weth" :> 1) @@ ("wbtc" :> 1) @@ ("link" :> 1)

\* pools_ethereum.json and pools_polygon.json as loaded, in key order.
ethereumPools == << [tokenA |-> "weth", tokenB |-> "wbtc", poolAddress |-> "p2"] >>

polygonPools == << >>

\* The pairs quotes are asked for: a pair with a pool asked both ways, and a
\* pair of a token without pools and a token without metadata.
ControllerPairs == {<<"weth", "wbtc">>, <<"wbtc", "weth">>, <<"link", "dai">>}

NullQuote == [null |-> TRUE]

ErrorQuote == [error |-> "Could not calculate price"]

\* CacheService.generateKey
generateKey(tokenIn, tokenOut, amount) == <<tokenIn, tokenOut, amount>>

\* CacheService.getQuote
getQuote(qc, key, t) ==
  IF key \in DOMAIN qc /\ t - qc[key].timestamp < CACHE_TTL
  THEN qc[key].quote ELSE NullQuote

\* CacheService.setQuote
setQuote(qc, key, quote, t) == mapSet(qc, key, [quote |-> quote, timestamp |-> t])

\* calculateBestPrice: null without pool data, else the dummy quote of the
\* first pool, 1 / (sqrtPriceX96 / 2^96)^2 with the ratio a whole number.
calculateBestPrice(poolData) ==
  IF Len(poolData) = 0 THEN NullQuote
  ELSE LET firstPool == poolData[1]
       IN [price |-> 1 \div (firstPool.sqrtRatio * firstPool.sqrtRatio),
           poolAddress |-> firstPool.address]

\* The Set of the two addresses, in insertion order.
tokensOf(request) ==
  IF request.tokenIn = request.tokenOut THEN <<request.tokenIn>>
  ELSE <<request.tokenIn, request.tokenOut>>

\* needsUpdate: some token was never updated or more than the interval ago.
needsUpdate(lu, tokens, t) ==
  \E i \in 1..Len(tokens) :
    tokens[i] \notin DOMAIN lu \/ t - lu[tokens[i]] > REFRESH_INTERVAL

\* groupTokensByChain, for one chain: the addresses with metadata of it.
addressesOn(tokens, chainId) ==
  { tokens[i] : i \in { j \in 1..Len(tokens) :
       tokens[j] \in DOMAIN tokenMetadata /\ tokenMetadata[tokens[j]] = chainId } }

\* Object.entries(tokensByChain): the chains that have addresses, ascending.
chainsOf(tokens) ==
  LET on(c) == IF addressesOn(tokens, c) = {} THEN <<>> ELSE <<c>>
  IN on(1) \o on(137)

\* getAssociatedPools: the addresses of the chain's pools with a token of
\* the set, in the order of the registry.
RECURSIVE poolsWith(_, _)
poolsWith(pools, addressSet) ==
  IF pools = <<>> THEN <<>>
  ELSE LET rest == poolsWith(Tail(pools), addressSet)
       IN IF Head(pools).tokenA \in addressSet \/ Head(pools).tokenB \in addressSet
          THEN <<Head(pools).poolAddress>> \o rest ELSE rest

getAssociatedPools(addresses, chainId) ==
  poolsWith(IF chainId = 1 THEN ethereumPools ELSE polygonPools, addresses)

\* new Map(requests.map(req => [req.id, req])).values(): one request per
\* id, at the place of the first and with the value of the last.
RECURSIVE uniqueRequests(_)
uniqueRequests(requests) ==
  IF requests = <<>> THEN <<>>
  ELSE LET n == Len(requests)
           last == requests[n]
           before == uniqueRequests(SubSeq(requests, 1, n - 1))
       IN IF \E i \in 1..Len(before) : before[i].id = last.id
          THEN [i \in 1..Len(before) |->
                  IF before[i].id = last.id THEN last ELSE before[i]]
          ELSE Append(before, last)

\* The services a getQuotes call writes, taken together.
dispatchIn(st, requestId, quote) ==
  LET done == dispatch(st.pending, st.resolved, requestId, quote)
  IN [st EXCEPT !.pending = done.pending, !.resolved = done.resolved]

RECURSIVE registerAll(_, _)
registerAll(pending, requests) ==
  IF requests = <<>> THEN pending
  ELSE registerAll(register(pending, Head(requests).id, Head(requests).resolve),
                   Tail(requests))

\* The loop over uniqueRequests, run to the next await of getBatchPoolData
\* or to the end: runRequests starts the body for the head request and
\* runChains continues its loop over the chains.
RECURSIVE runRequests(_, _, _)
RECURSIVE runChains(_, _, _, _, _)
runRequests(st, requests, t) ==
  IF requests = <<>> THEN [st |-> st, awaiting |-> <<>>]
  ELSE LET request == Head(requests)
           cacheKey == generateKey(request.tokenIn, request.tokenOut, request.amount)
           cachedQuote == getQuote(st.quoteCache, cacheKey, t)
       IN IF cachedQuote # NullQuote
          THEN runRequests(dispatchIn(st, request.id, cachedQuote), Tail(requests), t)
          ELSE runChains(st, requests, chainsOf(tokensOf(request)),
                         needsUpdate(st.lastUpdated, tokensOf(request), t), t)

runChains(st, requests, chains, needs, t) ==
  IF chains = <<>> THEN runRequests(st, Tail(requests), t)
  ELSE IF getAssociatedPools(addressesOn(tokensOf(Head(requests)), Head(chains)),
                             Head(chains)) = <<>>
       THEN runChains(st, requests, Tail(chains), needs, t)
       ELSE [st |-> st,
             awaiting |-> <<[requests |-> requests, chains |-> chains,
                             needsUpdate |-> needs]>>]

\* The lastUpdated Map with every address of the set at time t.
touchAll(lu, addresses, t) ==
  [a \in DOMAIN lu \cup addresses |-> IF a \in addresses THEN t ELSE lu[a]]

\* The code after an await of getBatchPoolData, to the end of the chain's
\* loop body: the stale branch caches and dispatches a quote and marks the
\* chain's addresses updated, or dispatches the error value; the fresh
\* branch caches and dispatches a quote, or does nothing.
afterPoolData(st, call, poolData, t) ==
  LET request == Head(call.requests)
      cacheKey == generateKey(request.tokenIn, request.tokenOut, request.amount)
      quote == calculateBestPrice(poolData)
      addresses == addressesOn(tokensOf(request), Head(call.chains))
      cached == [st EXCEPT !.quoteCache = setQuote(st.quoteCache, cacheKey, quote, t)]
  IN IF call.needsUpdate
     THEN IF quote # NullQuote
          THEN [dispatchIn(cached, request.id, quote) EXCEPT
                  !.lastUpdated = touchAll(st.lastUpdated, addresses, t)]
          ELSE dispatchIn(st, request.id, ErrorQuote)
     ELSE IF quote # NullQuote
          THEN dispatchIn(cached, request.id, quote)
          ELSE st

\* getBatchPoolData's answer: the state of every pool asked for, or of none.
poolDataOf(pools, answered) ==
  IF answered THEN [i \in 1..Len(pools) |-> [address |-> pools[i], sqrtRatio |-> 1]]
  ELSE <<>>

ControllerState ==
  [pending |-> pendingRequests, resolved |-> resolved,
   quoteCache |-> quoteCache, lastUpdated |-> lastUpdated]

\* The batcher's tick with the controller behind it: processQueue, and for
\* a queue that is not empty getQuotes(currentQueue) up to its first await.
GetQuotes ==
  LET done == processQueue(queue, forwarded)
      st0 == [ControllerState EXCEPT !.pending = registerAll(pendingRequests, queue)]
  IN \E ran \in {runRequests(st0, uniqueRequests(queue), now)} :
       /\ queue' = done.queue
       /\ forwarded' = done.forwarded
       /\ pendingRequests' = ran.st.pending
       /\ resolved' = ran.st.resolved
       /\ quoteCache' = ran.st.quoteCache
       /\ lastUpdated' = ran.st.lastUpdated
       /\ quoteCalls' = quoteCalls \o ran.awaiting
       /\ lastCall' = [op |-> "getQuotes", requests |-> Len(queue)]
       /\ UNCHANGED <<backgroundVars, rpcVars, priceVars, cycleLog, marketCache, cacheLayerVars,
                      now, aliveSet, aliveOrder, gcVars, batchVars, refreshVars,
                      hist>>

\* The pool data a getQuotes call awaits arrives, and the call runs on to
\* its next await or to its end.
PoolDataArrives(c, answered) ==
  LET call == quoteCalls[c]
      pools == getAssociatedPools(
                 addressesOn(tokensOf(Head(call.requests)), Head(call.chains)),
                 Head(call.chains))
      st1 == afterPoolData(ControllerState, call, poolDataOf(pools, answered), now)
      others == SubSeq(quoteCalls, 1, c - 1) \o SubSeq(quoteCalls, c + 1, Len(quoteCalls))
  IN \E ran \in {runChains(st1, call.requests, Tail(call.chains), call.needsUpdate, now)} :
       /\ pendingRequests' = ran.st.pending
       /\ resolved' = ran.st.resolved
       /\ quoteCache' = ran.st.quoteCache
       /\ lastUpdated' = ran.st.lastUpdated
       /\ quoteCalls' = others \o ran.awaiting
       /\ lastCall' = [op |-> "poolData", answered |-> answered,
                       id |-> Head(call.requests).id,
                       needsUpdate |-> call.needsUpdate]
       /\ UNCHANGED <<backgroundVars, rpcVars, priceVars, cycleLog, marketCache, cacheLayerVars,
                      batcherVars, now, aliveSet, aliveOrder, gcVars, batchVars,
                      refreshVars, hist>>

AddControllerQuote ==
  /\ Len(flatten(forwarded)) + Len(queue) < MaxQuotes
  /\ \E pair \in ControllerPairs : AddQuoteRequest(pair[1], pair[2], "1")

PoolData == \E c \in 1..Len(quoteCalls), answered \in BOOLEAN : PoolDataArrives(c, answered)

TickController ==
  /\ now + QuoteTickMs <= QuoteHorizonMs
  /\ now' = now + QuoteTickMs
  /\ lastCall' = [op |-> "tick"]
  /\ UNCHANGED <<engineVars, aliveSet, aliveOrder, gcVars, batchVars, refreshVars, hist>>

NextController == AddControllerQuote \/ GetQuotes \/ PoolData \/ TickController

SpecController == Init /\ [][NextController]_vars

\* The batcher's timer keeps firing and every provider call returns.
SpecControllerLive == SpecController /\ WF_vars(GetQuotes) /\ WF_vars(PoolData)

\* The resolver was passed to getQuotes in some batch.
PassedToGetQuotes(r) ==
  \E i \in 1..Len(flatten(forwarded)) : flatten(forwarded)[i].resolve = r

\* C31: every request passed to controller.getQuotes is answered in the
\* end: its resolver is called, with a quote or with an error value.
C31_EveryRequestAnswered ==
  \A r \in 1..MaxQuotes : PassedToGetQuotes(r) ~> (r \in DOMAIN resolved)

\* Requests of one batch with the same id are answered together.
C31_SameIdAnsweredTogether ==
  \A b \in 1..Len(forwarded) : \A i, j \in 1..Len(forwarded[b]) :
    forwarded[b][i].id = forwarded[b][j].id =>
      (forwarded[b][i].resolve \in DOMAIN resolved
         <=> forwarded[b][j].resolve \in DOMAIN resolved)

\* On the fresh path the provider returned no pool data and the request, of
\* a pair that has a pool, stays without an answer.
C31_FreshPathUnanswered ==
  /\ lastCall.op = "poolData"
  /\ ~lastCall.needsUpdate
  /\ ~lastCall.answered
  /\ lastCall.id \in DOMAIN pendingRequests
  /\ quoteCalls = <<>>

\* ---------------------------------------------------- QuarantineValidator
\* timingConfig.QUARANTINE_MIN_LIQUIDITY; liquidity is counted in units of it.
MIN_LIQUIDITY == 1

\* The validateToken calls in progress at one time.
MaxValidations == 2

\* The tokens discovery puts into quarantine, keyed in lower case.
QuarantineTokens == {"weth", "wbtc"}

\* The addresses validateToken is called with.
ValidatedAddresses == {"WETH", "wbtc", "usdc_pol"}

\* The pools discovery can find, as the registry writes their tokens.
DiscoverablePools ==
  { [address |-> "p1", token0 |-> "WETH", token1 |-> "usdc_pol"],
    [address |-> "p2", token0 |-> "usdc_pol", token1 |-> "wbtc"] }

Liquidities == {0, MIN_LIQUIDITY}

\* Object.values(registry.pools).filter(...): the pools with the token as
\* token0 or token1, addresses compared in lower case.
RECURSIVE poolsOfToken(_, _)
poolsOfToken(pools, tokenAddress) ==
  IF pools = <<>> THEN <<>>
  ELSE LET pool == Head(pools)
           rest == poolsOfToken(Tail(pools), tokenAddress)
       IN IF \/ toLowerCase(pool.token0) = toLowerCase(tokenAddress)
             \/ toLowerCase(pool.token1) = toLowerCase(tokenAddress)
          THEN <<pool>> \o rest ELSE rest

\* The code of validateToken between two awaits. call.stage names the await
\* the call is at; discovered is what discoverPoolsForTokens returned.
\* Result: the quarantine entries, the calls of promoteQuarantineToken, and
\* the next await of the call or its return value.
validateStep(call, q, pools, proms, discovered) ==
  LET key == toLowerCase(call.tokenAddress)
      found == poolsOfToken(pools, call.tokenAddress)
      at(stage) == [quarantine |-> q, promotions |-> proms, stage |-> stage]
  IN CASE call.stage = "getQuarantineRegistry" ->
            IF key \notin DOMAIN q THEN at("false")
            ELSE IF q[key].promoted THEN at("true")
            ELSE at("getPoolRegistry")
       [] call.stage = "getPoolRegistry" ->
            IF Len(found) = 0 THEN at("discoverPoolsForTokens")
            ELSE at("getPoolRegistry again")
       [] call.stage = "discoverPoolsForTokens" ->
            IF discovered = 0 THEN at("false") ELSE at("getPoolRegistry again")
       [] call.stage = "getPoolRegistry again" ->
            IF Len(found) = 0 THEN at("false")
            ELSE [quarantine |-> q,
                  promotions |-> Append(proms, [token |-> key, pools |-> found]),
                  stage |-> "promoteQuarantineToken"]
       [] call.stage = "promoteQuarantineToken" ->
            [quarantine |-> IF key \in DOMAIN q
                            THEN [q EXCEPT ![key].promoted = TRUE] ELSE q,
             promotions |-> proms, stage |-> "true"]

\* A token is discovered and put into quarantine, not promoted.
QuarantineToken(token) ==
  /\ token \notin DOMAIN quarantine
  /\ quarantine' = mapSet(quarantine, token, [promoted |-> FALSE])
  /\ lastCall' = [op |-> "quarantine", token |-> token]
  /\ UNCHANGED <<registryPools, validations, promotions, schedulerVars,
                 snapshotVars, loopVars, controllerVars, rpcVars, priceVars,
                 cycleLog, marketCache, cacheLayerVars, batcherVars, now,
                 aliveSet, aliveOrder, gcVars, batchVars, refreshVars, hist>>

\* validateToken(chainId, tokenAddress) is called and awaits the quarantine
\* registry.
ValidateToken(tokenAddress) ==
  /\ Len(validations) < MaxValidations
  /\ validations' = Append(validations, [tokenAddress |-> tokenAddress,
                                         stage |-> "getQuarantineRegistry"])
  /\ lastCall' = [op |-> "validateToken", token |-> tokenAddress]
  /\ UNCHANGED <<quarantine, registryPools, promotions, schedulerVars,
                 snapshotVars, loopVars, controllerVars, rpcVars, priceVars,
                 cycleLog, marketCache, cacheLayerVars, batcherVars, now,
                 aliveSet, aliveOrder, gcVars, batchVars, refreshVars, hist>>

\* The await of a validateToken call returns and the call runs on to its
\* next await or to its end. Discovery writes the pools it found for the
\* token into the registry and returns their number.
ValidationResumes(v, newPools, liquidity) ==
  LET call == validations[v]
      discovering == call.stage = "discoverPoolsForTokens"
      added == IF discovering
               THEN poolsOfToken(newPools, call.tokenAddress) ELSE <<>>
      pools == registryPools \o
                 [i \in 1..Len(added) |->
                    [address |-> added[i].address, token0 |-> added[i].token0,
                     token1 |-> added[i].token1, liquidity |-> liquidity]]
      others == SubSeq(validations, 1, v - 1) \o SubSeq(validations, v + 1, Len(validations))
  IN \E done \in {validateStep(call, quarantine, pools, promotions, Len(added))} :
       /\ registryPools' = pools
       /\ quarantine' = done.quarantine
       /\ promotions' = done.promotions
       /\ validations' = IF done.stage \in {"true", "false"} THEN others
                         ELSE others \o <<[call EXCEPT !.stage = done.stage]>>
       /\ lastCall' = [op |-> "validation", token |-> call.tokenAddress,
                       stage |-> done.stage]
       /\ UNCHANGED <<schedulerVars, snapshotVars, loopVars, controllerVars,
                      rpcVars, priceVars, cycleLog, marketCache, cacheLayerVars,
                      batcherVars, now, aliveSet, aliveOrder, gcVars, batchVars,
                      refreshVars, hist>>

Quarantined == \E token \in QuarantineTokens : QuarantineToken(token)

ValidationCalled == \E tokenAddress \in ValidatedAddresses : ValidateToken(tokenAddress)

\* What discovery can find: nothing, or a pool not yet in the registry.
Undiscovered ==
  { pool \in DiscoverablePools :
      \A i \in 1..Len(registryPools) : registryPools[i].address # pool.address }

ValidationStep ==
  \E v \in 1..Len(validations), liquidity \in Liquidities :
    \/ ValidationResumes(v, <<>>, liquidity)
    \/ \E pool \in Undiscovered : ValidationResumes(v, <<pool>>, liquidity)

NextQuarantine == Quarantined \/ ValidationCalled \/ ValidationStep

SpecQuarantine == Init /\ [][NextQuarantine]_vars

\* C33: promoteQuarantineToken is called for a token only when the pool
\* registry then holds a pool with the token as token0 or token1 that meets
\* the minimum liquidity.
C33_PromotedOnlyWithLiquidPool ==
  \A i \in 1..Len(promotions) :
    \E j \in 1..Len(promotions[i].pools) :
      promotions[i].pools[j].liquidity >= MIN_LIQUIDITY

\* Every token promoted was in quarantine and had a pool in the registry
\* when promoteQuarantineToken was called.
C33_PromotedTokenHasPool ==
  \A i \in 1..Len(promotions) :
    /\ promotions[i].token \in DOMAIN quarantine
    /\ Len(promotions[i].pools) > 0
    /\ \A j \in 1..Len(promotions[i].pools) :
         \E k \in 1..Len(registryPools) : registryPools[k] = promotions[i].pools[j]

\* A token for which discovery found nothing was turned away.
C33_NoPoolNotPromoted ==
  /\ lastCall.op = "validation"
  /\ lastCall.stage = "false"
  /\ poolsOfToken(registryPools, lastCall.token) = <<>>
  /\ toLowerCase(lastCall.token) \in DOMAIN quarantine
  /\ \A i \in 1..Len(promotions) : promotions[i].token # toLowerCase(lastCall.token)

\* ------------------------------------- refresh, sweep and eviction
\* The clock of the runs with eviction moves in steps of the cleanup
\* interval.
EvictTickMs == 30000

EvictHorizonMs == 90000

\* The token whose pool is tracked, evicted and tracked again.
EvictToken == [address |-> 51, chainId |-> 137, pricingPools |-> <<Route(1, "USDC")>>]

EvictKey == poolKeyOf(137, 1)

\* Interest is registered while the pool is not tracked; the history counts
\* the PoolRefs created for the pool.
RegisterEvict ==
  /\ ~Tracked(EvictKey)
  /\ GetMarketOverview(137, <<EvictToken>>)
  /\ lastCall' = [op |-> "overview"]
  /\ hist' = [hist EXCEPT ![EvictKey].regs = @ + 1]

TickEvict ==
  /\ now < nextLoop
  /\ now < nextPoolCleanup
  /\ now + EvictTickMs <= EvictHorizonMs
  /\ now' = now + EvictTickMs
  /\ lastCall' = NoCall
  /\ UNCHANGED <<engineVars, aliveSet, aliveOrder, gcVars, batchVars, refreshVars, hist>>

NextEvict ==
  \/ RegisterEvict
  \/ ReleaseOrder
  \/ CleanupPools
  \/ CleanupStateCache
  \/ ExecutionLoop
  \/ ProcessBatch
  \/ TickEvict

SpecEvict == InitRefresh /\ [][NextEvict]_vars

PoolsIn(batch) == { batch.pools[i] : i \in 1..Len(batch.pools) }

\* The number of places the pool has in the batches of a cycle.
PlacesIn(bs, k) ==
  Cardinality(UNION { { <<b, i>> : i \in { j \in 1..Len(bs[b]) : bs[b][j].address = k } } :
                      b \in 1..Len(bs) })

\* C35 as stated: no two batches in flight hold the same pool.
C35_OneBatchInFlightPerPool ==
  \A b1, b2 \in inFlight : b1 # b2 => PoolsIn(b1) \cap PoolsIn(b2) = {}

\* C35 as the code has it: the batches one cycle dispatches hold no pool
\* twice, and a cycle dispatches every tracked pool that is due, once,
\* whether or not a batch holding the pool is still in flight, and no pool
\* that is not due.
C35_DuePoolsDispatchedEveryCycle ==
  /\ [](\A b1, b2 \in inFlight :
          (b1 # b2 /\ b1.sentAt = b2.sentAt) => PoolsIn(b1) \cap PoolsIn(b2) = {})
  /\ [][ lastCall'.op = "loop" =>
           /\ \A k \in DOMAIN aliveSet :
                PlacesIn(batches', k) = IF aliveSet[k].nextRefresh <= now THEN 1 ELSE 0
           /\ \A b \in inFlight : b \in inFlight' ]_vars

\* A cycle has just dispatched a pool that an unanswered batch of an
\* earlier cycle holds too.
C35_Witness ==
  /\ lastCall.op = "loop"
  /\ \E b1, b2 \in inFlight :
       /\ b1.sentAt < b2.sentAt
       /\ b2.sentAt = now
       /\ PoolsIn(b1) \cap PoolsIn(b2) # {}

\* ------------------------------------------- startSchedulerIfNeeded
\* The calls of poolScheduler.start() made in a run.
MaxStarts == 3

\* The service before its first overview: the scheduler made, not started.
InitScheduler ==
  /\ InitCore
  /\ EnginesIdle
  /\ maxWeight = MAX_CALL_WEIGHT_PER_BATCH
  /\ scheduledPools = <<>>
  /\ schedulerStarted = FALSE
  /\ startsPending = 0
  /\ startCalls = <<>>

\* startSchedulerIfNeeded up to its await: nothing when the flag is set,
\* else poolScheduler.start() is called and awaited.
startSchedulerIfNeeded(started, pending, starts) ==
  IF started THEN [pending |-> pending, startCalls |-> starts]
  ELSE [pending |-> pending + 1, startCalls |-> Append(starts, "pending")]

\* getMarketOverview up to the await of startSchedulerIfNeeded: the interest
\* is registered and the scheduler started if the flag is not set. With no
\* route and no pool state loaded the market data of the tokens, fetched
\* after the await, is insufficient data and nothing of it is cached.
OverviewStartsScheduler(chainId, tokens) ==
  LET dedup == deduplicateTokensByPool(tokens)
      alive2 == handleTokenInterest(aliveSet, dedup, chainId, now)
      begun == startSchedulerIfNeeded(schedulerStarted, startsPending, startCalls)
  IN /\ \A k \in DOMAIN alive2 : alive2[k].refCount <= MaxRef
     /\ Len(begun.startCalls) <= MaxStarts
     /\ OpsDone + totalHits(dedup) <= MaxOps
     /\ hist' = [k \in PoolKeys |->
                   IF k[1] = chainId
                   THEN [hist[k] EXCEPT !.regs = @ + tokenHits(dedup, k[2])]
                   ELSE hist[k]]
     /\ aliveSet' = alive2
     /\ aliveOrder' = insertionOrder(aliveOrder, routeKeys(dedup, chainId))
     /\ startsPending' = begun.pending
     /\ startCalls' = begun.startCalls
     /\ lastCall' = [op |-> "overview", started |-> schedulerStarted]
     /\ UNCHANGED <<schedulerStarted, quarantineVars, snapshotVars, loopVars,
                    controllerVars, rpcVars, priceVars, cycleLog, marketCache,
                    cacheLayerVars, batcherVars, now, gcVars, batchVars,
                    refreshVars>>

\* The await of poolScheduler.start() returns: the flag is set when start
\* succeeded, and left as it is when start threw.
StartReturns(i, ok) ==
  /\ startCalls[i] = "pending"
  /\ startCalls' = [startCalls EXCEPT ![i] = IF ok THEN "started" ELSE "failed"]
  /\ startsPending' = startsPending - 1
  /\ schedulerStarted' = (schedulerStarted \/ ok)
  /\ lastCall' = [op |-> "start", ok |-> ok]
  /\ UNCHANGED <<quarantineVars, snapshotVars, loopVars, controllerVars,
                 rpcVars, priceVars, cycleLog, marketCache, cacheLayerVars,
                 batcherVars, now, aliveSet, aliveOrder, gcVars, batchVars,
                 refreshVars, hist>>

OverviewCalled ==
  \E c \in Chains, ts \in TokenLists : OverviewStartsScheduler(c, ts)

SchedulerAnswers ==
  \E i \in 1..Len(startCalls), ok \in BOOLEAN : StartReturns(i, ok)

NextScheduler == OverviewCalled \/ SchedulerAnswers \/ Release

SpecScheduler == InitScheduler /\ [][NextScheduler]_vars

\* C36: poolScheduler.start() is called at most one time as long as that call
\* succeeds: when a call of start() succeeded, every other call made failed.
C36_SchedulerStartedOnce ==
  (\E i \in 1..Len(startCalls) : startCalls[i] = "started") =>
    Cardinality({ i \in 1..Len(startCalls) : startCalls[i] # "failed" }) <= 1

\* Once the flag is set no overview calls poolScheduler.start(), and the
\* flag stays set.
C36_NoStartOnceFlagSet ==
  [][ schedulerStarted =>
        /\ schedulerStarted'
        /\ Len(startCalls') = Len(startCalls) ]_vars

\* An overview found the flag set, after a start that failed and one that
\* succeeded, and started nothing.
C36_StartedAfterFailure ==
  /\ lastCall.op = "overview"
  /\ lastCall.started
  /\ startCalls = <<"failed", "started">>

\* ------------------------------------------------------- SnapshotService
\* The generations of snapshots that may await their adapter at once.
MaxGenerations == 3

\* The chains with an adapter, by getChainName().toLowerCase().
SnapshotAdapters == {"ethereum", "polygon"}

\* The chain names snapshots are asked for.
SnapshotChains == {"Ethereum", "polygon", "solana"}

\* chain.toLowerCase()
chainKeyOf(chain) == IF chain = "Ethereum" THEN "ethereum" ELSE chain

\* isUpdating.get(chainKey), undefined for a chain never set.
updatingOf(flags, chainKey) == chainKey \in DOMAIN flags /\ flags[chainKey]

\* The generations awaiting the adapter of the chain.
generationsOf(gens, chainKey) == { i \in 1..Len(gens) : gens[i] = chainKey }

\* generateSnapshot(chain) up to its await: it throws for a chain with no
\* adapter, returns the cached snapshot when the flag of the chain is set
\* and a snapshot is cached, and else sets the flag and asks the adapter
\* for the top pools.
generateSnapshot(cached, flags, gens, chain) ==
  LET chainKey == chainKeyOf(chain)
  IN IF chainKey \notin SnapshotAdapters
     THEN [result |-> "throws", isUpdating |-> flags, generations |-> gens]
     ELSE IF updatingOf(flags, chainKey) /\ chainKey \in DOMAIN cached
     THEN [result |-> "cached", isUpdating |-> flags, generations |-> gens]
     ELSE [result |-> "generating",
           isUpdating |-> mapSet(flags, chainKey, TRUE),
           generations |-> Append(gens, chainKey)]

GenerateSnapshot(chain) ==
  LET call == generateSnapshot(snapshotCache, isUpdating, generations, chain)
  IN /\ Len(call.generations) <= MaxGenerations
     /\ isUpdating' = call.isUpdating
     /\ generations' = call.generations
     /\ lastCall' = [op |-> "generateSnapshot", chain |-> chain,
                     result |-> call.result,
                     running |->
                       Cardinality(generationsOf(generations, chainKeyOf(chain)))]
     /\ UNCHANGED <<snapshotCache, quarantineVars, schedulerVars, loopVars,
                    controllerVars, rpcVars, priceVars, cycleLog, marketCache,
                    cacheLayerVars, batcherVars, now, aliveSet, aliveOrder,
                    gcVars, batchVars, refreshVars, hist>>

\* adapter.getTopPools of the i-th generation resolves, and the snapshot
\* built from the pools is cached, or rejects; the flag of the chain is
\* cleared either way.
TopPoolsAnswer(i, ok) ==
  /\ i \in 1..Len(generations)
  /\ snapshotCache' =
       IF ok THEN mapSet(snapshotCache, generations[i],
                         [timestamp |-> now, chain |-> generations[i]])
       ELSE snapshotCache
  /\ isUpdating' = mapSet(isUpdating, generations[i], FALSE)
  /\ generations' = removeAt(generations, i)
  /\ lastCall' = [op |-> "topPools", chain |-> generations[i], ok |-> ok]
  /\ UNCHANGED <<quarantineVars, schedulerVars, loopVars, controllerVars,
                 rpcVars, priceVars, cycleLog, marketCache, cacheLayerVars,
                 batcherVars, now, aliveSet, aliveOrder, gcVars, batchVars,
                 refreshVars, hist>>

SnapshotAsked == \E chain \in SnapshotChains : GenerateSnapshot(chain)

AdapterAnswers ==
  \E i \in 1..Len(generations), ok \in BOOLEAN : TopPoolsAnswer(i, ok)

NextSnapshot == SnapshotAsked \/ AdapterAnswers \/ TickInterest

SpecSnapshot == Init /\ [][NextSnapshot]_vars

\* C38: the flag of a chain is set whenever a generation for the chain is in
\* progress, and once a snapshot of the chain is cached at most one
\* generation for it runs at a time.
C38_FlagTracksGenerations ==
  \A chainKey \in SnapshotAdapters :
    /\ generationsOf(generations, chainKey) # {} => updatingOf(isUpdating, chainKey)
    /\ chainKey \in DOMAIN snapshotCache =>
         Cardinality(generationsOf(generations, chainKey)) <= 1

\* A call that finds the flag of its chain set and a snapshot cached starts
\* no generation and gets the cached snapshot, and a call for a chain with
\* no adapter changes nothing.
C38_FlagSetServesCache ==
  [][ \A chain \in SnapshotChains :
        (lastCall'.op = "generateSnapshot" /\ lastCall'.chain = chain)
        => /\ (updatingOf(isUpdating, chainKeyOf(chain))
                 /\ chainKeyOf(chain) \in DOMAIN snapshotCache)
              => (lastCall'.result = "cached" /\ generations' = generations)
           /\ chainKeyOf(chain) \notin SnapshotAdapters
              => (lastCall'.result = "throws" /\ generations' = generations
                    /\ isUpdating' = isUpdating) ]_vars

\* A call was served the cached snapshot while a generation was running.
C38_ServedWhileGenerating ==
  /\ lastCall.op = "generateSnapshot"
  /\ lastCall.result = "cached"
  /\ lastCall.running > 0

\* ------------------------------------------------------ GC cleanup loops
\* The interval timers made in a run.
MaxTimers == 14

\* The time the cleanup loops are followed for.
LoopHorizonMs == 30000

\* The names startAllCleanupLoops registers its timers under, in order.
LoopNames ==
  << "pool-cleanup", "topology-refresh", "state-cache", "logo-cleanup-1",
     "logo-cleanup-137", "quarantine-cleanup-1", "quarantine-cleanup-137" >>

\* startAllCleanupLoops(): one setInterval per name, each giving a timer
\* with an id of its own, kept in cleanupLoops under the name.
startAllCleanupLoops(loops, timers, made) ==
  [cleanupLoops |->
     [n \in DOMAIN loops \cup Range(LoopNames) |->
        IF n \in Range(LoopNames)
        THEN made + (CHOOSE i \in 1..Len(LoopNames) : LoopNames[i] = n)
        ELSE loops[n]],
   activeTimers |->
     timers \cup { [id |-> made + i, name |-> LoopNames[i]] :
                   i \in 1..Len(LoopNames) },
   timersMade |-> made + Len(LoopNames)]

\* stopAllCleanupLoops(): clearInterval for every id kept in cleanupLoops,
\* and the Map is cleared.
stopAllCleanupLoops(loops, timers) ==
  [cleanupLoops |-> <<>>,
   activeTimers |-> { t \in timers : \A n \in DOMAIN loops : loops[n] # t.id }]

\* The timers scheduled under a name.
scheduled(timers, name) == { t \in timers : t.name = name }

\* startAllCleanupLoops(); the first pool cleanup is due one interval later.
StartAllCleanupLoops ==
  LET started == startAllCleanupLoops(cleanupLoops, activeTimers, timersMade)
  IN /\ started.timersMade <= MaxTimers
     /\ cleanupLoops' = started.cleanupLoops
     /\ activeTimers' = started.activeTimers
     /\ timersMade' = started.timersMade
     /\ nextPoolCleanup' = now + POOL_CLEANUP_INTERVAL_MS
     /\ lastCall' = [op |-> "startAllCleanupLoops", replaced |-> DOMAIN cleanupLoops]
     /\ UNCHANGED <<poolsWithZeroRefCount, quarantineVars, schedulerVars,
                    snapshotVars, controllerVars, rpcVars, priceVars, cycleLog,
                    marketCache, cacheLayerVars, batcherVars, now, aliveSet,
                    aliveOrder, batchVars, refreshVars, hist>>

StopAllCleanupLoops ==
  LET stopped == stopAllCleanupLoops(cleanupLoops, activeTimers)
  IN /\ cleanupLoops' = stopped.cleanupLoops
     /\ activeTimers' = stopped.activeTimers
     /\ lastCall' = [op |-> "stopAllCleanupLoops",
                     cleared |-> { cleanupLoops[n] : n \in DOMAIN cleanupLoops }]
     /\ UNCHANGED <<timersMade, quarantineVars, schedulerVars, snapshotVars,
                    controllerVars, rpcVars, priceVars, cycleLog, marketCache,
                    cacheLayerVars, batcherVars, now, aliveSet, aliveOrder,
                    gcVars, batchVars, refreshVars, hist>>

\* A scheduled pool-cleanup timer fires once its interval has passed.
PoolCleanupFires ==
  /\ scheduled(activeTimers, "pool-cleanup") # {}
  /\ CleanupPools

\* Time passes; a scheduled cleanup timer, once due, fires before time
\* moves on.
TickLoops ==
  /\ scheduled(activeTimers, "pool-cleanup") # {} => now < nextPoolCleanup
  /\ now + TickMs <= LoopHorizonMs
  /\ now' = now + TickMs
  /\ lastCall' = NoCall
  /\ UNCHANGED <<engineVars, aliveSet, aliveOrder, gcVars, batchVars, refreshVars, hist>>

NextLoops ==
  \/ StartAllCleanupLoops
  \/ StopAllCleanupLoops
  \/ PoolCleanupFires
  \/ RegisterGC
  \/ ReleaseGC
  \/ TickLoops

SpecLoops == Init /\ [][NextLoops]_vars

\* C39: when stopAllCleanupLoops has returned no cleanup timer is scheduled.
C39_NoLoopScheduledAfterStop ==
  lastCall.op = "stopAllCleanupLoops" => activeTimers = {}

\* stopAllCleanupLoops clears every timer kept in cleanupLoops and empties
\* the Map, every timer kept in the Map is scheduled, and the timers
\* scheduled outside the Map are those a second start replaced there.
C39_StopClearsRegisteredTimers ==
  /\ [](\A n \in DOMAIN cleanupLoops :
          [id |-> cleanupLoops[n], name |-> n] \in activeTimers)
  /\ [][ lastCall'.op = "stopAllCleanupLoops"
         => /\ cleanupLoops' = <<>>
            /\ \A t \in activeTimers' : t.id \notin lastCall'.cleared
            /\ activeTimers \ activeTimers' =
                 { t \in activeTimers : t.id \in lastCall'.cleared } ]_vars
  /\ [][ (lastCall'.op = "startAllCleanupLoops" /\ lastCall'.replaced = {})
         => activeTimers' \ activeTimers =
              { [id |-> cleanupLoops'[n], name |-> n] : n \in DOMAIN cleanupLoops' } ]_vars

\* The loops were started once and stopped: nothing is scheduled.
C39_StartedOnceThenStopped ==
  /\ lastCall.op = "stopAllCleanupLoops"
  /\ timersMade = Len(LoopNames)
  /\ activeTimers = {}

\* A pool cleanup ran from a timer left scheduled after the stop.
C39_LeftoverTimerFires ==
  /\ lastCall.op = "cleanup"
  /\ cleanupLoops = <<>>
  /\ scheduled(activeTimers, "pool-cleanup") # {}

====
